---- MODULE Spec2Model ----
(***************************************************************************)
(* Model of the transaction submission pipeline of the Adrena client:      *)
(* AdrenaClient.signAndExecuteTxAlternative (src/src/lib/AdrenaClient.ts)  *)
(* with simulateTransactionStrongPromise and the helpers of                *)
(* src/src/utils/utils.ts it calls (parseTransactionError,                 *)
(* AdrenaTransactionError, sleep, DEFAULT_PRIORITY_FEES).                  *)
(*                                                                         *)
(* One submission is one asynchronous task.  Every await of the code is a  *)
(* step of the model: an action runs the code from one await up to the     *)
(* next one, the network or the wallet answering nondeterministically.     *)
(*                                                                         *)
(* Further specifications over the same variables model parts of the       *)
(* client on their own: TranslateSpec (parseTransactionError), CustodySpec *)
(* (swap and addLiquidity over the pool snapshot), AtaSpec (two callers of *)
(* checkATAAddressInitializedAndCreatePreInstruction), PnlSpec             *)
(* (calculatePositionBorrowFee and calculatePositionPnL), CalcSpec (one    *)
(* call of a helper: calculateLiquidationPrice,                            *)
(* calculateCappedFeeForExitEarly, uiToNative and nativeToUi,              *)
(* loadUserVest, createPrepareWSOLAccountInstructions, initUserStaking),   *)
(* PriceSpec (AdrenaService.getTokenPrice of src/demo-file.ts) and         *)
(* SimulateSpec (simulateTransactionStrong).  JavaScript numbers are       *)
(* IEEE 754 doubles: the conversions between native and displayed amounts  *)
(* are computed with the rounding of a double.                             *)
(***************************************************************************)
EXTENDS Integers, Sequences, FiniteSets, TLC

VARIABLES
    ready,                    \* this.adrenaProgram && this.connection are set
    priorityFeeOption,        \* this.priorityFeeOption
    maxPriorityFee,           \* this.maxPriorityFee * LAMPORTS_PER_SOL, or NoMaxPriorityFee
    walletName,               \* wallet.walletName
    pc,                       \* the await the task is suspended at
    transaction,              \* the Transaction argument (mutated in place)
    priorityFeeMicroLamports, \* local of the same name
    computeUnitUsed,          \* local of the same name
    retry,                    \* retry argument of the pending simulateTransactionStrongPromise
    signedTransaction,        \* local of the same name
    txSignatureBase58,        \* local of the same name
    txIsConfirmed,            \* local of the same name
    confirmTxRet,             \* local of the same name
    elapsed,                  \* Date.now() - start
    loopStart,                \* d - start (the clock when the round began)
    outcome,                  \* how the promise settled
    notifLog,                 \* calls made on the notification object
    stages,                   \* stages entered so far, in order
    signCalls,                \* calls of wallet.signTransaction
    sendCalls,                \* calls of connection.sendRawTransaction
    statusCalls,              \* calls of connection.getSignatureStatus
    sendsSincePoll,           \* sendRawTransaction calls since the last poll
    sentPayloads,             \* the transactions handed to sendRawTransaction
    reportedHashes,           \* identifiers passed to setTxHash, returned or thrown
    feeLookup,                \* how the priority-fee lookup ended
    attempts                  \* consecutive attempts of the call being awaited

\* parseTransactionError(adrenaProgram, err)
VARIABLES
    rawFailure,               \* the err argument of parseTransactionError
    parsed                    \* what parseTransactionError returned

\* the pool snapshot and one operation that builds a transaction from it
VARIABLES
    mainPool,                 \* this.mainPool
    custodies,                \* this.custodies
    opPc,                     \* the await the operation is suspended at
    opArgs,                   \* the operation and its mint arguments
    preInstructions,          \* local of the same name
    opError                   \* the error the operation's promise rejected with

\* concurrent callers of checkATAAddressInitializedAndCreatePreInstruction
VARIABLES
    tokenAccounts,            \* the token accounts that exist on chain
    ataCalls                  \* per caller: its arguments, its position, what it got

\* calculatePositionBorrowFee and calculatePositionPnL
VARIABLES
    dateNow,                  \* Date.now(), in milliseconds
    position,                 \* the position argument
    collateralCustody,        \* the collateral custody of the position
    tokenPrices,              \* the tokenPrices argument
    interestUsd,              \* what calculatePositionBorrowFee returned
    pnl                       \* what calculatePositionPnL returned

\* one call of a helper that computes its result from its arguments and at
\* most a few reads of the chain
VARIABLES
    request,                  \* the helper called, its arguments, what its reads give
    reply                     \* what the call returned

\* AdrenaService.getTokenPrice and its cache
VARIABLES
    clockMs,                  \* Date.now(), in milliseconds
    clockTicks,               \* how many times the clock has advanced
    tokenPriceCache,          \* this.tokenPriceCache, per token mint
    priceCalls                \* per caller: its position, its locals, what it got

\* one call of simulateTransactionStrong
VARIABLES
    simConnection,            \* this.connection is set
    simPc,                    \* where the call is: calling, waiting for the timer, settled
    simRetry,                 \* the retry argument of the pending invocation
    simCalls,                 \* calls of connection.simulateTransaction
    simFailures,              \* what the catch received, invocation after invocation
    simSettlements            \* the calls of resolve and reject

vars == <<ready, priorityFeeOption, maxPriorityFee, walletName, pc, transaction,
          priorityFeeMicroLamports, computeUnitUsed, retry, signedTransaction,
          txSignatureBase58, txIsConfirmed, confirmTxRet, elapsed, loopStart,
          outcome, notifLog, stages, signCalls, sendCalls, statusCalls,
          sendsSincePoll, sentPayloads, reportedHashes, feeLookup, attempts,
          rawFailure, parsed,
          mainPool, custodies, opPc, opArgs, preInstructions, opError,
          tokenAccounts, ataCalls,
          dateNow, position, collateralCustody, tokenPrices, interestUsd, pnl,
          request, reply,
          clockMs, clockTicks, tokenPriceCache, priceCalls,
          simConnection, simPc, simRetry, simCalls, simFailures, simSettlements>>

-----------------------------------------------------------------------------
(* Program constants *)

MAX_TIMEOUT == 30000
MIN_LOOP_TIME == 500
MAX_SIMULATE_RETRY == 10
MIN_CONFIRMATIONS == 10
INITIAL_COMPUTE_UNITS == 1400000
SOLFLARE_EXTRA_UNITS == 12000
MICRO_LAMPORTS_PER_LAMPORT == 1000000

\* `undefined` of simulationResult.unitsConsumed, `null` of this.maxPriorityFee,
\* `null` of SignatureStatus.confirmations
UnitsUndefined == -1
NoMaxPriorityFee == -1
NullConfirmations == -1

\* Compute units are kept in twentieths of a unit, so that
\* computeUnitUsed * 1.05 is represented exactly.
UNIT_SCALE == 20
MARGIN_SCALED == 21

(* Bounds of the model *)

\* duration in ms of a slow network call (a fast one takes 0 ms)
SlowCall == 20000

\* durations of a getSignatureStatus call
CallTimes == {0, SlowCall}

\* durations of a re-broadcast
ResendTimes == {0}

PriorityFeeOptions == {"medium", "high", "ultra"}

\* fee rates getMeanPrioritizationFeeByPercentile may return
LookupFees == {20000}

\* configured caps, already multiplied by LAMPORTS_PER_SOL
MaxPriorityFees == {NoMaxPriorityFee, 100}

\* unitsConsumed values a simulation may report
UnitsConsumedValues == {UnitsUndefined, 4000}

WalletNames == {"Phantom", "Solflare"}

\* signatures[0].signature of an unsigned slot
NoSignature == <<>>

-----------------------------------------------------------------------------
(* utils.ts *)

DEFAULT_PRIORITY_FEES(option) ==
    CASE option = "medium" -> 100000
      [] option = "high" -> 250000
      [] option = "ultra" -> 500000

NullTxHash == <<>>

bs58encode(signature) == <<"base58", signature>>

AdrenaTransactionError(txHash, errorString) ==
    [typed |-> TRUE, txHash |-> txHash, errorString |-> errorString]

setTxHash(err, txHash) == [err EXCEPT !.txHash = txHash]

\* A plain Error thrown by the client itself
PlainError(message) ==
    [typed |-> FALSE, str |-> message, json |-> "{}", name |-> "",
     codeHex |-> -1, codeDec |-> -1, msg |-> ""]

\* Raw failures of the collaborators.  str is String(err), json is
\* safeJSONStringify(err); name, codeHex, codeDec and msg are what the regular
\* expressions of parseTransactionError extract from them ("" and -1: no match).
RawBlockhashValue ==
    [typed |-> FALSE, str |-> "BlockhashNotFound", json |-> "\"BlockhashNotFound\"",
     name |-> "", codeHex |-> -1, codeDec |-> -1, msg |-> ""]

RawBlockhashThrown ==
    [typed |-> FALSE, str |-> "Error: BlockhashNotFound", json |-> "{}",
     name |-> "", codeHex |-> -1, codeDec |-> -1, msg |-> ""]

RawNetworkThrown ==
    [typed |-> FALSE, str |-> "TypeError: fetch failed", json |-> "{}",
     name |-> "", codeHex |-> -1, codeDec |-> -1, msg |-> ""]

RawRentValue ==
    [typed |-> FALSE, str |-> "[object Object]",
     json |-> "{InsufficientFundsForRent}",
     name |-> "", codeHex |-> -1, codeDec |-> -1, msg |-> ""]

RawCustomValue ==
    [typed |-> FALSE, str |-> "[object Object]",
     json |-> "{InstructionError:[0,{Custom: 6001}]}",
     name |-> "", codeHex |-> -1, codeDec |-> 6001, msg |-> ""]

RawNotConfirmed ==
    [typed |-> FALSE, str |-> "Transaction not confirmed",
     json |-> "\"Transaction not confirmed\"",
     name |-> "", codeHex |-> -1, codeDec |-> -1, msg |-> ""]

RawNull ==
    [typed |-> FALSE, str |-> "null", json |-> "null",
     name |-> "", codeHex |-> -1, codeDec |-> -1, msg |-> ""]

\* errString.includes('BlockhashNotFound')
IncludesBlockhashNotFound(s) ==
    s \in {"BlockhashNotFound", "Error: BlockhashNotFound"}

\* safeJSONStringify(err).includes('InsufficientFundsForRent')
IncludesInsufficientFundsForRent(s) ==
    s \in {"{InsufficientFundsForRent}"}

\* adrenaProgram.idl.errors
IdlErrors ==
    { [code |-> 6000, name |-> "MathOverflow", msg |-> "Overflow in arithmetic operation"],
      [code |-> 6001, name |-> "UnsupportedOracle", msg |-> "Unsupported price oracle"] }

IdlMatches(err) ==
    { e \in IdlErrors :
        \/ err.name # "" /\ err.name = e.name
        \/ err.codeHex # -1 /\ err.codeHex = e.code
        \/ err.codeDec # -1 /\ err.codeDec = e.code }

\* (mutant) the IDL error table is consulted before the two signals
parseTransactionError_IdlFirst(err) ==
    IF err.typed THEN err
    ELSE AdrenaTransactionError(NullTxHash,
        IF IdlMatches(err) # {} THEN (CHOOSE e \in IdlMatches(err) : TRUE).msg
        ELSE IF err.json = "\"BlockhashNotFound\"" THEN "BlockhashNotFound"
        ELSE IF IncludesInsufficientFundsForRent(err.json)
            THEN "Not enough SOL to pay for transaction fees and rent"
        ELSE "Unknown error")

parseTransactionError(err) ==
    IF err.typed THEN err
    ELSE AdrenaTransactionError(NullTxHash,
        IF err.json = "\"BlockhashNotFound\"" THEN "BlockhashNotFound"
        ELSE IF IncludesInsufficientFundsForRent(err.json)
            THEN "Not enough SOL to pay for transaction fees and rent"
        ELSE IF IdlMatches(err) # {} THEN (CHOOSE e \in IdlMatches(err) : TRUE).msg
        ELSE IF err.name # "" /\ err.msg # "" THEN "name: message"
        ELSE IF err.name # "" THEN "Error name"
        ELSE IF err.codeHex > 0 THEN "Error code (hex)"
        ELSE IF err.codeDec = 1 THEN "Insufficient SOL"
        ELSE IF err.codeDec > 0 THEN "Error code (decimal)"
        ELSE "Unknown error")

-----------------------------------------------------------------------------
(* The transaction and its instructions *)

Instruction(kind, value) == [kind |-> kind, value |-> value]

\* ComputeBudgetProgram.setComputeUnitPrice({ microLamports })
setComputeUnitPrice(microLamports) == Instruction("setComputeUnitPrice", microLamports)

\* ComputeBudgetProgram.setComputeUnitLimit({ units }), units in twentieths
setComputeUnitLimit(unitsScaled) == Instruction("setComputeUnitLimit", unitsScaled)

\* the instruction lists the builders hand over: pre-instructions, the
\* operation, post-instructions
BuiltInstructions ==
    { <<Instruction("pre", 1), Instruction("pre", 2), Instruction("operation", 0),
        Instruction("post", 1), Instruction("post", 2)>> }

\* Array.prototype.unshift(a, b)
unshift(instructions, a, b) == <<a, b>> \o instructions

\* (mutant) the adjusted instruction is inserted instead of replacing the
\* one already there
setAt_Insert(instructions, i, x) ==
    SubSeq(instructions, 1, i - 1) \o <<x>> \o SubSeq(instructions, i, Len(instructions))

\* instructions[i] = x (i counted from 1)
setAt(instructions, i, x) == [instructions EXCEPT ![i] = x]

-----------------------------------------------------------------------------
(* Fee cap and compute-unit limit (AdrenaClient.ts 4864-4901) *)

\* the value of instructions[0] after "adjust priority fee base on max priority
\* fee".  totalPriorityFee = fee * units / 1_000_000 is compared with the cap
\* in lamports; both sides are multiplied by 1_000_000 here.
AdjustedPriorityFee(fee, units, maxFee) ==
    IF units # UnitsUndefined /\ maxFee # NoMaxPriorityFee /\ units > 0
    THEN IF fee * units > maxFee * MICRO_LAMPORTS_PER_LAMPORT
         THEN (maxFee * MICRO_LAMPORTS_PER_LAMPORT) \div units
         ELSE fee
    ELSE fee

\* the value of instructions[1] after "Adjust compute unit limit", in
\* twentieths of a unit
AdjustedComputeUnitLimit(units, wallet) ==
    IF units # UnitsUndefined
    THEN units * MARGIN_SCALED
         + (IF wallet = "Solflare" THEN SOLFLARE_EXTRA_UNITS * UNIT_SCALE ELSE 0)
    ELSE INITIAL_COMPUTE_UNITS * UNIT_SCALE

AdjustInstructions(instructions, fee, units, maxFee, wallet) ==
    setAt(setAt(instructions, 1, setComputeUnitPrice(AdjustedPriorityFee(fee, units, maxFee))),
          2, setComputeUnitLimit(AdjustedComputeUnitLimit(units, wallet)))

-----------------------------------------------------------------------------
(* Signature status (AdrenaClient.ts 4967-5021) *)

SignatureStatus(present, value, confirmations, err) ==
    [present |-> present, value |-> value, confirmations |-> confirmations,
     hasErr |-> err # RawNull, err |-> err]

\* getSignatureStatus threw: .catch(() => null)
StatusRpcFailed == SignatureStatus(FALSE, FALSE, NullConfirmations, RawNull)
\* { value: null }: the signature is unknown to the node
StatusUnknown == SignatureStatus(TRUE, FALSE, NullConfirmations, RawNull)
StatusPending == SignatureStatus(TRUE, TRUE, MIN_CONFIRMATIONS, RawNull)
StatusDeep == SignatureStatus(TRUE, TRUE, MIN_CONFIRMATIONS + 1, RawNull)
\* confirmations is null once the transaction is rooted
StatusRooted == SignatureStatus(TRUE, TRUE, NullConfirmations, RawNull)
StatusErrPending == SignatureStatus(TRUE, TRUE, 1, RawCustomValue)
StatusErrDeep == SignatureStatus(TRUE, TRUE, MIN_CONFIRMATIONS + 1, RawCustomValue)

StatusResults ==
    {StatusRpcFailed, StatusUnknown, StatusPending, StatusDeep, StatusRooted,
     StatusErrPending, StatusErrDeep}

\* confirmTxRet && confirmTxRet.value && confirmTxRet.value.confirmations &&
\* confirmTxRet.value.confirmations > 10
IsConfirmed(ret) ==
    /\ ret.present
    /\ ret.value
    /\ ret.confirmations # NullConfirmations /\ ret.confirmations # 0
    /\ ret.confirmations > MIN_CONFIRMATIONS

\* (mutant) the deadline is compared with <=
LoopContinues_Inclusive(confirmed, sinceStart) ==
    ~confirmed /\ sinceStart <= MAX_TIMEOUT

\* while (!txIsConfirmed && Date.now() - start < MAX_TIMEOUT)
LoopContinues(confirmed, sinceStart) ==
    ~confirmed /\ sinceStart < MAX_TIMEOUT

\* (mutant) the check after the loop forgets !txIsConfirmed
ConfirmationFailed_IgnoresTimeout(confirmed, ret) ==
    \/ ~ret.present
    \/ ret.present /\ ((ret.value /\ ret.hasErr) \/ ~ret.value)

\* (mutant) the check after the loop does not look at the status's err
ConfirmationFailed_IgnoresErr(confirmed, ret) ==
    \/ ~confirmed
    \/ ~ret.present
    \/ ret.present /\ ~ret.value

\* the condition of the if statement after the loop
ConfirmationFailed(confirmed, ret) ==
    \/ ~confirmed
    \/ ~ret.present
    \/ ret.present /\ ((ret.value /\ ret.hasErr) \/ ~ret.value)

\* the failure handed to parseTransactionError after the loop
ConfirmationFailure(ret) ==
    IF ret.present /\ ret.value THEN ret.err ELSE RawNotConfirmed

\* (mutant) every failure is retried while retry < 10
ShouldRetrySimulation_AnyFailure(err, n) ==
    n < MAX_SIMULATE_RETRY

\* errString.includes('BlockhashNotFound') && retry < 10
ShouldRetrySimulation(err, n) ==
    /\ IncludesBlockhashNotFound(IF err.typed THEN err.errorString ELSE err.str)
    /\ n < MAX_SIMULATE_RETRY

-----------------------------------------------------------------------------
(* The submission: signAndExecuteTxAlternative *)

StageOrder == <<"blockhash", "fee", "sign", "send", "confirm">>

NoOutcome == [kind |-> "none"]
Returned(value) == [kind |-> "returned", value |-> value]
\* error is the value the promise rejects with, cause the failure behind it
Rejected(err, cause) == [kind |-> "rejected", error |-> err, cause |-> cause]

NoTransaction == [recentBlockhash |-> "none", instructions |-> <<>>]
NoSignedTransaction == [message |-> NoTransaction, signature |-> NoSignature]
NoStatus == StatusRpcFailed

\* nothing has been handed to parseTransactionError
NotParsed == [typed |-> FALSE, str |-> "not parsed"]

translateVars == <<rawFailure, parsed>>

TranslateIdle ==
    /\ rawFailure = RawNull
    /\ parsed = NotParsed

\* no operation was started
NoArgs == [kind |-> "none"]
NoError == [typed |-> FALSE, str |-> ""]

custodyVars == <<mainPool, custodies, opPc, opArgs, preInstructions, opError>>

CustodyIdle ==
    /\ mainPool = [custodies |-> <<>>]
    /\ custodies = <<>>
    /\ opPc = "idle"
    /\ opArgs = NoArgs
    /\ preInstructions = <<>>
    /\ opError = NoError

ataVars == <<tokenAccounts, ataCalls>>

AtaIdle ==
    /\ tokenAccounts = {}
    /\ ataCalls = <<>>

\* nothing was computed
NotComputed == [computed |-> FALSE]

pnlVars == <<dateNow, position, collateralCustody, tokenPrices, interestUsd, pnl>>

PnlIdle ==
    /\ dateNow = 0
    /\ position = NotComputed
    /\ collateralCustody = NotComputed
    /\ tokenPrices = NotComputed
    /\ interestUsd = 0
    /\ pnl = NotComputed

\* no helper was called
NoRequest == [fn |-> "none"]

calcVars == <<request, reply>>

CalcIdle ==
    /\ request = NoRequest
    /\ reply = NotComputed

priceVars == <<clockMs, clockTicks, tokenPriceCache, priceCalls>>

PriceIdle ==
    /\ clockMs = 0
    /\ clockTicks = 0
    /\ tokenPriceCache = <<>>
    /\ priceCalls = <<>>

simulateVars == <<simConnection, simPc, simRetry, simCalls, simFailures, simSettlements>>

SimulateIdle ==
    /\ simConnection = TRUE
    /\ simPc = "idle"
    /\ simRetry = 0
    /\ simCalls = 0
    /\ simFailures = <<>>
    /\ simSettlements = <<>>

\* the state of the client's other operations, which a submission never writes
otherVars == <<translateVars, custodyVars, ataVars, pnlVars, calcVars, priceVars, simulateVars>>

OthersIdle ==
    /\ TranslateIdle
    /\ CustodyIdle
    /\ AtaIdle
    /\ PnlIdle
    /\ CalcIdle
    /\ PriceIdle
    /\ SimulateIdle

\* what each group of operations leaves alone
besidesTranslate == <<custodyVars, ataVars, pnlVars, calcVars, priceVars, simulateVars>>
besidesCustody == <<translateVars, ataVars, pnlVars, calcVars, priceVars, simulateVars>>
besidesAta == <<translateVars, custodyVars, pnlVars, calcVars, priceVars, simulateVars>>
besidesPnl == <<translateVars, custodyVars, ataVars, calcVars, priceVars, simulateVars>>
besidesCalc == <<translateVars, custodyVars, ataVars, pnlVars, priceVars, simulateVars>>
besidesPrice == <<translateVars, custodyVars, ataVars, pnlVars, calcVars, simulateVars>>
besidesSimulate == <<translateVars, custodyVars, ataVars, pnlVars, calcVars, priceVars>>

Init ==
    /\ OthersIdle
    /\ ready \in BOOLEAN
    /\ priorityFeeOption \in PriorityFeeOptions
    /\ maxPriorityFee \in MaxPriorityFees
    /\ walletName \in WalletNames
    /\ \E built \in BuiltInstructions :
          transaction = [recentBlockhash |-> "none", instructions |-> built]
    /\ pc = "start"
    /\ priorityFeeMicroLamports = 0
    /\ computeUnitUsed = UnitsUndefined
    /\ retry = 0
    /\ signedTransaction = NoSignedTransaction
    /\ txSignatureBase58 = NullTxHash
    /\ txIsConfirmed = FALSE
    /\ confirmTxRet = NoStatus
    /\ elapsed = 0
    /\ loopStart = 0
    /\ outcome = NoOutcome
    /\ notifLog = <<>>
    /\ stages = <<>>
    /\ signCalls = 0
    /\ sendCalls = 0
    /\ statusCalls = 0
    /\ sendsSincePoll = 0
    /\ sentPayloads = {}
    /\ reportedHashes = {}
    /\ feeLookup = "none"
    /\ attempts = 0

configVars == <<ready, priorityFeeOption, maxPriorityFee, walletName, otherVars>>
feeVars == <<priorityFeeMicroLamports, feeLookup>>
loopVars == <<txIsConfirmed, confirmTxRet, elapsed, loopStart>>
callVars == <<signCalls, sendCalls, statusCalls, sendsSincePoll, sentPayloads>>
resultVars == <<outcome, reportedHashes>>

Stage(name, status) == [stage |-> name, status |-> status]
EndStage(status) == [stages EXCEPT ![Len(stages)].status = status]
NextStage(name) == Append(EndStage("completed"), Stage(name, "entered"))

currentStepSucceeded == <<"currentStepSucceeded">>
currentStepErrored(err) == <<"currentStepErrored", err>>
notifySetTxHash(txHash) == <<"setTxHash", txHash>>

\* the identifier an error carries, if any
HashesOf(err) ==
    IF err.typed /\ err.txHash # NullTxHash THEN {err.txHash} ELSE {}

\* throw err out of the async function: the promise rejects
Throw(err, cause) ==
    /\ outcome' = Rejected(err, cause)
    /\ reportedHashes' = reportedHashes \cup HashesOf(err)
    /\ stages' = IF stages = <<>> THEN stages ELSE EndStage("failed")
    /\ pc' = "done"

\* if (!this.adrenaProgram || !this.connection) throw new Error(...)
\* priorityFeeMicroLamports = DEFAULT_PRIORITY_FEES[this.priorityFeeOption]
Start ==
    /\ pc = "start"
    /\ IF ~ready
       THEN /\ Throw(PlainError("Error: adrena program not ready"),
                     PlainError("Error: adrena program not ready"))
            /\ UNCHANGED priorityFeeMicroLamports
       ELSE /\ priorityFeeMicroLamports' = DEFAULT_PRIORITY_FEES(priorityFeeOption)
            /\ stages' = <<Stage("blockhash", "entered")>>
            /\ pc' = "getLatestBlockhash"
            /\ UNCHANGED resultVars
    /\ UNCHANGED <<configVars, transaction, computeUnitUsed, retry, signedTransaction,
                   txSignatureBase58, loopVars, notifLog, callVars, feeLookup, attempts>>

\* (mutant) the failure is reported but the submission goes on
BlockhashCatch_FallThrough(err) ==
    /\ notifLog' = Append(notifLog, currentStepErrored(parseTransactionError(err)))
    /\ stages' = Append(EndStage("failed"), Stage("fee", "entered"))
    /\ pc' = "priorityFee"
    /\ UNCHANGED <<transaction, resultVars>>

\* the catch block around getLatestBlockhash
BlockhashCatch(err) ==
    LET adrenaError == parseTransactionError(err) IN
    /\ notifLog' = Append(notifLog, currentStepErrored(adrenaError))
    /\ Throw(adrenaError, err)
    /\ UNCHANGED transaction

\* latestBlockHash = await this.connection.getLatestBlockhash('confirmed')
GetLatestBlockhash ==
    /\ pc = "getLatestBlockhash"
    /\ attempts' = 1
    /\ \/ /\ transaction' = [transaction EXCEPT !.recentBlockhash = "latest"]
          /\ stages' = NextStage("fee")
          /\ pc' = "priorityFee"
          /\ UNCHANGED <<notifLog, resultVars>>
       \/ \E err \in {RawBlockhashThrown, RawNetworkThrown} : BlockhashCatch(err)
    /\ UNCHANGED <<configVars, feeVars, computeUnitUsed, retry,
                   signedTransaction, txSignatureBase58, loopVars, callVars>>

\* transaction.instructions.unshift(setComputeUnitPrice, setComputeUnitLimit)
InjectComputeBudget(tx, fee) ==
    [tx EXCEPT !.instructions =
        unshift(@, setComputeUnitPrice(fee),
                   setComputeUnitLimit(INITIAL_COMPUTE_UNITS * UNIT_SCALE))]

\* (mutant) the default is lost when the lookup fails
LookupCatch_NoFee ==
    /\ feeLookup' = "failed"
    /\ priorityFeeMicroLamports' = 0

\* the catch block around getMeanPrioritizationFeeByPercentile: the failure is
\* logged, priorityFeeMicroLamports keeps the tier's default
LookupCatch ==
    /\ feeLookup' = "failed"
    /\ UNCHANGED priorityFeeMicroLamports

\* priorityFeeMicroLamports = await getMeanPrioritizationFeeByPercentile(...)
\* (a failure is logged and ignored), then the two compute-budget
\* instructions are put at the head of the instruction list
FetchPriorityFee ==
    /\ pc = "priorityFee"
    /\ \/ \E fee \in LookupFees :
            /\ priorityFeeMicroLamports' = fee
            /\ feeLookup' = "ok"
       \/ LookupCatch
    /\ transaction' = InjectComputeBudget(transaction, priorityFeeMicroLamports')
    /\ attempts' = 0
    /\ pc' = "simulate"
    /\ UNCHANGED <<configVars, computeUnitUsed, retry, signedTransaction,
                   txSignatureBase58, loopVars, notifLog, stages, callVars, resultVars>>

\* connection.simulateTransaction resolves with value.err == null:
\* simulateTransactionStrong resolves, the fee cap and the compute-unit limit
\* are applied and the transaction is handed to the wallet
SimulateOk ==
    /\ pc = "simulate"
    /\ \E units \in UnitsConsumedValues :
          /\ computeUnitUsed' = units
          /\ transaction' =
                [transaction EXCEPT !.instructions =
                    AdjustInstructions(@, priorityFeeMicroLamports, units,
                                       maxPriorityFee, walletName)]
    /\ notifLog' = Append(notifLog, currentStepSucceeded)
    /\ stages' = NextStage("sign")
    /\ pc' = "sign"
    /\ retry' = 0   \* the promise is settled, no invocation is pending
    /\ attempts' = 0
    /\ UNCHANGED <<configVars, feeVars, signedTransaction, txSignatureBase58,
                   loopVars, callVars, resultVars>>

\* what the .catch of simulateTransactionStrongPromise receives: the parsed
\* value.err, or the error connection.simulateTransaction threw
SimulationFailures ==
    { parseTransactionError(RawBlockhashValue), parseTransactionError(RawCustomValue),
      RawBlockhashThrown, RawNetworkThrown }

\* (mutant) the failure is swallowed, as simulateAndGetComputedUnits does,
\* and the transaction goes to the wallet with the default compute budget
SimulationCatch_Swallow(err) ==
    /\ notifLog' = Append(notifLog, currentStepSucceeded)
    /\ stages' = Append(EndStage("failed"), Stage("sign", "entered"))
    /\ pc' = "sign"
    /\ UNCHANGED <<retry, resultVars>>

\* the catch block around this.simulateTransaction in signAndExecuteTxAlternative
SimulationCatch(err) ==
    LET adrenaError == parseTransactionError(err) IN
    /\ notifLog' = Append(notifLog, currentStepErrored(adrenaError))
    /\ Throw(adrenaError, err)
    /\ UNCHANGED retry

\* connection.simulateTransaction fails: retried after 50 ms while the failure
\* is BlockhashNotFound and retry < 10, rejected otherwise
SimulateFail ==
    /\ pc = "simulate"
    /\ attempts' = retry + 1
    /\ \E err \in SimulationFailures :
          IF ShouldRetrySimulation(err, retry)
          THEN /\ retry' = retry + 1
               /\ UNCHANGED <<pc, notifLog, stages, resultVars>>
          ELSE SimulationCatch(err)
    /\ UNCHANGED <<configVars, feeVars, transaction, computeUnitUsed, signedTransaction,
                   txSignatureBase58, loopVars, callVars>>

\* the signature the wallet puts on a message
SignatureOf(message) == <<"signed", message>>

\* (mutant) the wallet is asked again after a rejection
SignCatch_Retry ==
    /\ notifLog' = Append(notifLog, currentStepErrored(
                        AdrenaTransactionError(NullTxHash, "User rejected the request")))
    /\ stages' = EndStage("failed")
    /\ pc' = "sign"
    /\ UNCHANGED <<signedTransaction, txSignatureBase58, resultVars>>

\* the catch block around wallet.signTransaction
SignCatch ==
    LET adrenaError == AdrenaTransactionError(NullTxHash, "User rejected the request") IN
    /\ notifLog' = Append(notifLog, currentStepErrored(adrenaError))
    /\ Throw(adrenaError, PlainError("Error: User rejected the request."))
    /\ UNCHANGED <<signedTransaction, txSignatureBase58>>

\* signedTransaction = await wallet.signTransaction(transaction)
Sign ==
    /\ pc = "sign"
    /\ signCalls' = signCalls + 1
    /\ attempts' = 1
    /\ \/ SignCatch
       \/ \E signature \in {SignatureOf(transaction), NoSignature} :
          /\ signedTransaction' = [message |-> transaction, signature |-> signature]
          /\ IF signature = NoSignature
             THEN /\ Throw(PlainError("Error: Transaction signature missing"),
                           PlainError("Error: Transaction signature missing"))
                  /\ UNCHANGED <<txSignatureBase58, notifLog>>
             ELSE /\ txSignatureBase58' = bs58encode(signature)
                  /\ notifLog' = Append(notifLog, currentStepSucceeded)
                  /\ stages' = NextStage("send")
                  /\ pc' = "send"
                  /\ UNCHANGED resultVars
    /\ UNCHANGED <<configVars, feeVars, transaction, computeUnitUsed, retry, loopVars,
                   sendCalls, statusCalls, sendsSincePoll, sentPayloads>>

\* the catch block around the first sendRawTransaction
SendCatch(err) ==
    LET adrenaError == parseTransactionError(err) IN
    /\ notifLog' = Append(notifLog, currentStepErrored(adrenaError))
    /\ Throw(adrenaError, err)
    /\ UNCHANGED loopVars

\* what the first sendRawTransaction is given:
\* signedTransaction.serialize({requireAllSignatures: false, verifySignatures: false})
BroadcastPayload(signed) == signed

\* await this.connection.sendRawTransaction(...)
Send ==
    /\ pc = "send"
    /\ sendCalls' = sendCalls + 1
    /\ sendsSincePoll' = sendsSincePoll + 1
    /\ sentPayloads' = sentPayloads \cup {BroadcastPayload(signedTransaction)}
    /\ attempts' = 1
    /\ \/ /\ notifLog' = notifLog \o <<notifySetTxHash(txSignatureBase58),
                                       currentStepSucceeded>>
          /\ reportedHashes' = reportedHashes \cup {txSignatureBase58}
          /\ txIsConfirmed' = FALSE
          /\ confirmTxRet' = NoStatus
          /\ elapsed' = 0
          /\ loopStart' = 0
          /\ stages' = NextStage("confirm")
          /\ pc' = "loop"
          /\ UNCHANGED outcome
       \/ \E err \in {RawBlockhashThrown, RawNetworkThrown} : SendCatch(err)
    /\ UNCHANGED <<configVars, feeVars, transaction, computeUnitUsed, retry,
                   signedTransaction, txSignatureBase58, signCalls, statusCalls>>

\* utils.ts sleep(timeInMs): the clock after the timer fired
sleep(now, timeInMs) == now + timeInMs

\* the end of an unconfirmed round: if (loopTime < MIN_LOOP_TIME) await sleep(...)
EndOfRound(now, d) ==
    LET loopTime == now - d IN
    IF loopTime < MIN_LOOP_TIME THEN sleep(now, MIN_LOOP_TIME - loopTime) ELSE now

\* (mutant) a poll that failed is not followed by a re-broadcast
AfterPoll_SkipFailedPoll(status) ==
    IF IsConfirmed(status) \/ ~status.present THEN "loop" ELSE "resend"

\* the branch taken after a poll: back to the loop condition when the
\* transaction is confirmed, to the re-broadcast otherwise
AfterPoll(status) ==
    IF IsConfirmed(status) THEN "loop" ELSE "resend"

\* confirmTxRet = await this.connection.getSignatureStatus(txSignatureBase58)
\*                    .catch(() => null)
Poll ==
    /\ pc = "loop"
    /\ LoopContinues(txIsConfirmed, elapsed)
    /\ statusCalls' = statusCalls + 1
    /\ sendsSincePoll' = 0
    /\ loopStart' = elapsed
    /\ attempts' = 1
    /\ \E status \in StatusResults, t \in CallTimes :
          /\ confirmTxRet' = status
          /\ elapsed' = elapsed + t
          /\ txIsConfirmed' = IsConfirmed(status)
          /\ pc' = AfterPoll(status)
    /\ UNCHANGED <<configVars, feeVars, transaction, computeUnitUsed, retry,
                   signedTransaction, txSignatureBase58, notifLog, stages,
                   signCalls, sendCalls, sentPayloads, resultVars>>

\* the catch block closing the confirmation try
ConfirmationCatch(err, log) ==
    LET adrenaError == setTxHash(parseTransactionError(err), txSignatureBase58) IN
    /\ notifLog' = Append(log, currentStepErrored(adrenaError))
    /\ Throw(adrenaError, err)

\* (mutant) the transaction is signed again for every re-broadcast
RebroadcastPayload_Resigned(signed) ==
    [signed EXCEPT !.signature = SignatureOf([signed.message EXCEPT !.recentBlockhash = "newer"])]

\* what a re-broadcast is given: signedTransaction.serialize()
RebroadcastPayload(signed) == signed

\* the else branch of the loop: the signed transaction is sent again, then the
\* round is filled up to MIN_LOOP_TIME
Resend ==
    /\ pc = "resend"
    /\ attempts' = 1
    /\ \/ \E t \in ResendTimes :
            /\ sendCalls' = sendCalls + 1
            /\ sendsSincePoll' = sendsSincePoll + 1
            /\ sentPayloads' = sentPayloads \cup {RebroadcastPayload(signedTransaction)}
            /\ elapsed' = EndOfRound(elapsed + t, loopStart)
            /\ loopStart' = elapsed'   \* d of the round that may follow
            /\ pc' = "loop"
            /\ UNCHANGED <<notifLog, stages, resultVars>>
       \/ \E err \in {RawBlockhashThrown} :
            \* serialize() or sendRawTransaction throws
            /\ sendCalls' = sendCalls + 1
            /\ sendsSincePoll' = sendsSincePoll + 1
            /\ sentPayloads' = sentPayloads \cup {RebroadcastPayload(signedTransaction)}
            /\ ConfirmationCatch(err, notifLog)
            /\ UNCHANGED <<elapsed, loopStart>>
    /\ UNCHANGED <<configVars, feeVars, transaction, computeUnitUsed, retry,
                   signedTransaction, txSignatureBase58, txIsConfirmed, confirmTxRet,
                   signCalls, statusCalls>>

\* the loop has ended: the transaction is reported confirmed or failed
Conclude ==
    /\ pc = "loop"
    /\ ~LoopContinues(txIsConfirmed, elapsed)
    /\ IF ConfirmationFailed(txIsConfirmed, confirmTxRet)
       THEN LET adrenaError ==
                    setTxHash(parseTransactionError(ConfirmationFailure(confirmTxRet)),
                              txSignatureBase58)
            IN  \* thrown inside the try: the catch block handles it again
                ConfirmationCatch(adrenaError,
                                  Append(notifLog, currentStepErrored(adrenaError)))
       ELSE /\ notifLog' = notifLog \o <<notifySetTxHash(txSignatureBase58),
                                         currentStepSucceeded>>
            /\ stages' = EndStage("completed")
            /\ outcome' = Returned(txSignatureBase58)
            /\ reportedHashes' = reportedHashes \cup {txSignatureBase58}
            /\ pc' = "done"
    /\ UNCHANGED <<configVars, feeVars, transaction, computeUnitUsed, retry,
                   signedTransaction, txSignatureBase58, loopVars, callVars, attempts>>

Next ==
    \/ Start
    \/ GetLatestBlockhash
    \/ FetchPriorityFee
    \/ SimulateOk
    \/ SimulateFail
    \/ Sign
    \/ Send
    \/ Poll
    \/ Resend
    \/ Conclude

Spec == Init /\ [][Next]_vars

\* every awaited call returns: the task is always eventually resumed
FairSpec == Spec /\ WF_vars(Next)

-----------------------------------------------------------------------------
(* Properties of the submission *)

Done == pc = "done"

StageStatus(name) ==
    IF \E i \in 1..Len(stages) : stages[i].stage = name
    THEN (CHOOSE st \in {stages[i] : i \in 1..Len(stages)} : st.stage = name).status
    ELSE "never"

\* the simulation stage ended in an error
SimulationFailed == StageStatus("fee") = "failed"

\* C1: whenever the simulation of the draft transaction ended in an error,
\* the wallet was never asked to sign, nothing was broadcast and the call
\* has rejected.
C1_FailedSimulationNeverBroadcast ==
    SimulationFailed =>
        /\ signCalls = 0
        /\ sendCalls = 0
        /\ sentPayloads = {}
        /\ outcome.kind = "rejected"

\* the simulation was rejected with BlockhashNotFound after its retries
C1_Witness ==
    /\ SimulationFailed
    /\ Done
    /\ retry = MAX_SIMULATE_RETRY
    /\ outcome.error.errorString = "BlockhashNotFound"

\* the instructions of the transaction that was signed
SignedPrice == signedTransaction.message.instructions[1].value
SignedLimit == signedTransaction.message.instructions[2].value

\* C2: with a cap configured and a positive number of consumed units, the
\* signed transaction's price x limit / 1_000_000 does not exceed the cap
\* (price x limit <= cap x 1_000_000, the limit being kept in twentieths).
C2_FeeCapRespected ==
    ( /\ signedTransaction # NoSignedTransaction
      /\ maxPriorityFee # NoMaxPriorityFee
      /\ computeUnitUsed > 0 )
    => SignedPrice <= (maxPriorityFee * MICRO_LAMPORTS_PER_LAMPORT * UNIT_SCALE) \div SignedLimit

\* the confirmation stage was entered: the first broadcast succeeded
Broadcast == StageStatus("confirm") # "never"

\* a poll reported the confirmation depth before the deadline
ConfirmedBeforeDeadline == txIsConfirmed /\ elapsed < MAX_TIMEOUT

SetTxHashCalls ==
    { notifLog[i][2] : i \in { j \in 1..Len(notifLog) : notifLog[j][1] = "setTxHash" } }

\* C4: the wallet signs at most once, everything handed to
\* sendRawTransaction is the transaction it returned, and every identifier
\* reported (setTxHash, return value, txHash of an error) is the base58
\* signature of that transaction.
C4_OneSignedTransaction ==
    /\ signCalls <= 1
    /\ sentPayloads \subseteq {signedTransaction}
    /\ sendCalls > 0 => /\ sentPayloads = {signedTransaction}
                        /\ txSignatureBase58 = bs58encode(signedTransaction.signature)
    /\ reportedHashes \subseteq {bs58encode(signedTransaction.signature)}
    /\ SetTxHashCalls \subseteq {bs58encode(signedTransaction.signature)}
    /\ outcome.kind = "returned" => outcome.value = bs58encode(signedTransaction.signature)

\* a submission with several re-broadcasts that returned its signature
C4_Witness ==
    /\ Done
    /\ outcome.kind = "returned"
    /\ sendCalls >= 3
    /\ reportedHashes = {txSignatureBase58}

StagesInOrder ==
    /\ Len(stages) <= Len(StageOrder)
    /\ \A i \in 1..Len(stages) :
          /\ stages[i].stage = StageOrder[i]
          /\ i < Len(stages) => stages[i].status = "completed"
    /\ Len(stages) = CASE pc = "start" -> 0
                       [] pc = "getLatestBlockhash" -> 1
                       [] pc \in {"priorityFee", "simulate"} -> 2
                       [] pc = "sign" -> 3
                       [] pc = "send" -> 4
                       [] pc \in {"loop", "resend"} -> 5
                       [] OTHER -> Len(stages)
    /\ pc = "priorityFee" =>
          feeLookup = "none" /\ transaction.recentBlockhash = "latest"
    /\ pc = "simulate" =>
          /\ feeLookup # "none"
          /\ transaction.instructions[1].kind = "setComputeUnitPrice"
          /\ transaction.instructions[2].kind = "setComputeUnitLimit"
    /\ pc = "send" => signCalls = 1 /\ sendCalls = 0
    /\ pc \in {"loop", "resend"} => sendCalls >= 1

OneOutcome ==
    /\ Done <=> outcome.kind # "none"
    /\ (~Done /\ stages # <<>>) => stages[Len(stages)].status = "entered"
    /\ (Done /\ stages # <<>>) =>
          /\ stages[Len(stages)].status \in {"completed", "failed"}
          /\ stages[Len(stages)].status = "completed" <=>
                (outcome.kind = "returned" /\ Len(stages) = Len(StageOrder))

\* C5: the stages are entered in the order blockhash, fee estimation, signing,
\* first broadcast, confirmation, each at most once and only after the one
\* before it completed, and the submission settles exactly once.
C5_StagesSequential ==
    /\ [](StagesInOrder /\ OneOutcome)
    /\ [][outcome.kind # "none" => outcome' = outcome]_vars

C5_Witness ==
    /\ Done
    /\ outcome.kind = "returned"
    /\ Len(stages) = Len(StageOrder)
    /\ feeLookup = "failed"

\* wallet.signTransaction threw
SignerRejected ==
    StageStatus("sign") = "failed" /\ signedTransaction = NoSignedTransaction

\* C6: when the signer rejects, the submission is over: one signTransaction
\* call, no broadcast, no poll, rejection with a typed error without txHash.
C6_SignerRejectionIsTerminal ==
    SignerRejected =>
        /\ Done
        /\ signCalls = 1
        /\ sendCalls = 0
        /\ statusCalls = 0
        /\ outcome.kind = "rejected"
        /\ outcome.error = AdrenaTransactionError(NullTxHash, "User rejected the request")

C6_Witness ==
    SignerRejected /\ Done /\ outcome.kind = "rejected" /\ signCalls = 1

\* C7: between an unconfirmed poll and the next poll the signed transaction
\* is broadcast exactly once, and after a confirmed poll it is never
\* broadcast again.
C7_OneRebroadcastPerUnconfirmedPoll ==
    /\ pc = "resend" => ~IsConfirmed(confirmTxRet) /\ sendsSincePoll = 0
    /\ (pc = "loop" /\ ~txIsConfirmed) => sendsSincePoll = 1
    /\ txIsConfirmed => IsConfirmed(confirmTxRet) /\ sendsSincePoll = 0
    /\ pc = "loop" => sendCalls = 1 + statusCalls - (IF txIsConfirmed THEN 1 ELSE 0)
    /\ Broadcast => sendsSincePoll <= 1 /\ sentPayloads = {signedTransaction}

\* a failed poll was followed by one re-broadcast, later polls can follow
C7_Witness ==
    /\ pc = "loop"
    /\ statusCalls >= 2
    /\ confirmTxRet = StatusRpcFailed
    /\ sendsSincePoll = 1
    /\ LoopContinues(txIsConfirmed, elapsed)

\* the failure is a transient transmission error
IsTransient(cause) ==
    IncludesBlockhashNotFound(IF cause.typed THEN cause.errorString ELSE cause.str)

\* C8: a transient failure ends the submission only once the call that
\* failed has been retried MAX_SIMULATE_RETRY times.
C8_TransientFailuresRetried ==
    (Done /\ outcome.kind = "rejected" /\ IsTransient(outcome.cause))
        => attempts > MAX_SIMULATE_RETRY

\* C9: the call returns the base58 signature or rejects with an
\* AdrenaTransactionError.
C9_TypedOutcome ==
    Done => \/ outcome.kind = "returned" /\ outcome.value = txSignatureBase58
            \/ outcome.kind = "rejected" /\ outcome.error.typed

MaxRounds == MAX_TIMEOUT \div MIN_LOOP_TIME

\* C10: once the first broadcast succeeded the submission settles, after at
\* most MAX_TIMEOUT / MIN_LOOP_TIME = 60 polls.
C10_ConfirmationTerminates ==
    /\ [](statusCalls <= MaxRounds)
    /\ (pc \in {"loop", "resend"}) ~> Done
    /\ [](Done => outcome.kind \in {"returned", "rejected"})

\* the deadline was reached by 60 rounds of MIN_LOOP_TIME
C10_Witness ==
    Done /\ statusCalls = MaxRounds /\ elapsed = MAX_TIMEOUT

-----------------------------------------------------------------------------
(* Fee lookup fallback and instruction layout *)

\* the flat default of the configured tier, in microLamports
TierDefault ==
    CASE priorityFeeOption = "medium" -> 100000
      [] priorityFeeOption = "high" -> 250000
      [] priorityFeeOption = "ultra" -> 500000

\* C11: a failed percentile priority-fee lookup does not abort the
\* submission: the step that sees the failure goes on to the simulation, no
\* outcome is set, and the compute-unit price put at the head of the
\* transaction is the flat default of the configured tier.
C11_LookupFailureFallsBack ==
    [][ (pc = "priorityFee" /\ feeLookup' = "failed")
        => /\ pc' = "simulate"
           /\ outcome' = NoOutcome
           /\ priorityFeeMicroLamports' = TierDefault
           /\ Head(transaction'.instructions) = setComputeUnitPrice(TierDefault) ]_vars

\* the lookup failed and the submission went on up to a confirmed signature
C11_Witness ==
    /\ feeLookup = "failed"
    /\ priorityFeeOption = "high"
    /\ outcome.kind = "returned"

\* [setComputeUnitPrice, setComputeUnitLimit] followed by the built list
HasLayout(instructions, built) ==
    /\ Len(instructions) = Len(built) + 2
    /\ instructions[1].kind = "setComputeUnitPrice"
    /\ instructions[2].kind = "setComputeUnitLimit"
    /\ \A i \in 1..Len(built) : instructions[i + 2] = built[i]

\* C17: the transaction handed to the signer is [setComputeUnitPrice,
\* setComputeUnitLimit] followed by the built instructions (pre-instructions,
\* operation, post-instructions) unchanged and in their order; its length is
\* the built length + 2.
C17_SignedLayout ==
    /\ pc = "sign" => \E built \in BuiltInstructions :
                         HasLayout(transaction.instructions, built)
    /\ signedTransaction # NoSignedTransaction
          => \E built \in BuiltInstructions :
                /\ HasLayout(signedTransaction.message.instructions, built)
                /\ [i \in 1..Len(built) |-> built[i].kind]
                      = <<"pre", "pre", "operation", "post", "post">>

\* a transaction whose price and limit were both adjusted was signed
C17_Witness ==
    /\ signedTransaction # NoSignedTransaction
    /\ computeUnitUsed # UnitsUndefined
    /\ maxPriorityFee # NoMaxPriorityFee
    /\ SignedPrice # priorityFeeMicroLamports
    /\ SignedLimit # INITIAL_COMPUTE_UNITS * UNIT_SCALE

-----------------------------------------------------------------------------
(* parseTransactionError on its own (utils.ts 336-413) *)

\* errors that were already translated
TranslatedErrors ==
    { AdrenaTransactionError(NullTxHash, "User rejected the request"),
      AdrenaTransactionError(bs58encode(<<"signed", "tx">>), "BlockhashNotFound"),
      AdrenaTransactionError(NullTxHash, "Unknown error") }

\* raw failures: every combination of what String(err), safeJSONStringify(err)
\* and the four regular expressions can give on one failure
RawFailures ==
    { RawBlockhashValue, RawBlockhashThrown, RawNetworkThrown, RawNotConfirmed, RawNull }
    \cup
    { [typed |-> FALSE, str |-> s, json |-> j, name |-> n,
       codeHex |-> h, codeDec |-> d, msg |-> m] :
        s \in {"[object Object]", "Error: failed to send transaction"},
        j \in {"{InsufficientFundsForRent}", "{InstructionError}"},
        n \in {"", "MathOverflow", "ConstraintSeeds"},
        h \in {-1, 6001, 3012},
        d \in {-1, 1, 6000},
        m \in {"", "A seeds constraint was violated"} }

\* the submission is idle while a failure is translated
SubmissionIdle ==
    /\ priorityFeeOption = "medium"
    /\ maxPriorityFee = NoMaxPriorityFee
    /\ walletName = "Phantom"
    /\ transaction = NoTransaction
    /\ pc = "idle"
    /\ priorityFeeMicroLamports = 0
    /\ computeUnitUsed = UnitsUndefined
    /\ retry = 0
    /\ signedTransaction = NoSignedTransaction
    /\ txSignatureBase58 = NullTxHash
    /\ txIsConfirmed = FALSE
    /\ confirmTxRet = NoStatus
    /\ elapsed = 0
    /\ loopStart = 0
    /\ outcome = NoOutcome
    /\ notifLog = <<>>
    /\ stages = <<>>
    /\ signCalls = 0
    /\ sendCalls = 0
    /\ statusCalls = 0
    /\ sendsSincePoll = 0
    /\ sentPayloads = {}
    /\ reportedHashes = {}
    /\ feeLookup = "none"
    /\ attempts = 0

submissionVars ==
    <<ready, priorityFeeOption, maxPriorityFee, walletName, pc, transaction,
      priorityFeeMicroLamports, computeUnitUsed, retry, signedTransaction,
      txSignatureBase58, txIsConfirmed, confirmTxRet, elapsed, loopStart,
      outcome, notifLog, stages, signCalls, sendCalls, statusCalls,
      sendsSincePoll, sentPayloads, reportedHashes, feeLookup, attempts>>

TranslateInit ==
    /\ ready = TRUE
    /\ SubmissionIdle
    /\ CustodyIdle
    /\ AtaIdle
    /\ PnlIdle
    /\ CalcIdle
    /\ PriceIdle
    /\ SimulateIdle
    /\ rawFailure \in TranslatedErrors \cup RawFailures
    /\ parsed = NotParsed

\* const adrenaError = parseTransactionError(this.adrenaProgram, err)
Translate ==
    /\ parsed = NotParsed
    /\ parsed' = parseTransactionError(rawFailure)
    /\ UNCHANGED <<rawFailure, submissionVars, besidesTranslate>>

\* the next failure is handed over
NextFailure ==
    /\ parsed # NotParsed
    /\ rawFailure' \in TranslatedErrors \cup RawFailures
    /\ parsed' = NotParsed
    /\ UNCHANGED <<submissionVars, besidesTranslate>>

TranslateNext ==
    \/ Translate
    \/ NextFailure

TranslateSpec == TranslateInit /\ [][TranslateNext]_vars

\* the classes a failure matches, by the signal each class is recognised by
MatchedClasses(e) ==
    (IF e.typed THEN {1} ELSE {})
    \cup (IF ~e.typed /\ e.json = "\"BlockhashNotFound\"" THEN {2} ELSE {})
    \cup (IF ~e.typed /\ IncludesInsufficientFundsForRent(e.json) THEN {3} ELSE {})
    \cup (IF ~e.typed /\ \E i \in IdlErrors :
                 (e.name # "" /\ e.name = i.name) \/ e.codeHex = i.code \/ e.codeDec = i.code
           THEN {4} ELSE {})
    \cup {5}

HighestClass(e) == CHOOSE c \in MatchedClasses(e) : \A d \in MatchedClasses(e) : c <= d

\* the class a result reports
ReportedClass(e, result) ==
    IF e.typed /\ result = e THEN 1
    ELSE IF result.txHash = NullTxHash /\ result.errorString = "BlockhashNotFound" THEN 2
    ELSE IF result.errorString = "Not enough SOL to pay for transaction fees and rent" THEN 3
    ELSE IF \E i \in IdlErrors : result.errorString = i.msg THEN 4
    ELSE 5

\* C12: parseTransactionError reports the highest-priority class the failure
\* matches, in the order (1) already translated, returned unchanged,
\* (2) BlockhashNotFound, (3) insufficient native balance, (4) custom program
\* error of the IDL error table, (5) unknown; the result is always an
\* AdrenaTransactionError.
C12_PriorityOrder ==
    parsed # NotParsed =>
        /\ parsed.typed
        /\ ReportedClass(rawFailure, parsed) = HighestClass(rawFailure)
        /\ rawFailure.typed => parsed = rawFailure

\* a failure that matches the insufficient-balance class and the program
\* error class was reported as the former
C12_Witness ==
    /\ parsed # NotParsed
    /\ {3, 4} \subseteq MatchedClasses(rawFailure)
    /\ ReportedClass(rawFailure, parsed) = 3

\* C13: a raw failure that matches none of the recognised classes gives an
\* error whose errorString holds the raw diagnostic string of the failure.
C13_UnknownKeepsRawText ==
    (parsed # NotParsed /\ HighestClass(rawFailure) = 5)
        => parsed.errorString \in {rawFailure.str, rawFailure.json}

-----------------------------------------------------------------------------
(* The pool snapshot: custodies and the operations built from them *)

\* number of slots of mainPool.custodies
PoolSlots == 4

\* PublicKey.default, the sentinel of an unused slot
PublicKeyDefault == "11111111111111111111111111111111"

Mints == {"USDC", "SOL", "BONK", "WBTC", "JTO"}

\* the custody accounts on chain, by address
CustodyPubkeys == {"custodyUSDC", "custodySOL", "custodyBONK", "custodyWBTC"}

\* pricing.maxLeverage of the custodies, in basis points: x10
MaxLeverage == 100000

CustodyAccount(pubkey) ==
    CASE pubkey = "custodyUSDC" ->
            [mint |-> "USDC", oracle |-> "oracleUSDC", tradeOracle |-> "oracleUSDC",
             pricing |-> [maxLeverage |-> MaxLeverage]]
      [] pubkey = "custodySOL" ->
            [mint |-> "SOL", oracle |-> "oracleSOL", tradeOracle |-> "oracleSOL",
             pricing |-> [maxLeverage |-> MaxLeverage]]
      [] pubkey = "custodyBONK" ->
            [mint |-> "BONK", oracle |-> "oracleBONK", tradeOracle |-> "tradeOracleBONK",
             pricing |-> [maxLeverage |-> MaxLeverage]]
      [] pubkey = "custodyWBTC" ->
            [mint |-> "WBTC", oracle |-> "oracleWBTC", tradeOracle |-> "tradeOracleWBTC",
             pricing |-> [maxLeverage |-> MaxLeverage]]

\* the lists mainPool.custodies can hold: distinct custody addresses, unused
\* slots holding the default address
PoolCustodyLists ==
    { l \in [1..PoolSlots -> CustodyPubkeys \cup {PublicKeyDefault}] :
        \A i, j \in 1..PoolSlots :
            (i # j /\ l[i] # PublicKeyDefault) => l[i] # l[j] }

\* mainPool.custodies.filter((custody) => !custody.equals(PublicKey.default))
custodiesAddresses(pool) ==
    SelectSeq(pool.custodies, LAMBDA custody : custody # PublicKeyDefault)

\* AdrenaClient.loadCustodies: one CustodyExtended per address, in pool order
loadCustodies(pool) ==
    LET addresses == custodiesAddresses(pool) IN
    [i \in 1..Len(addresses) |->
        [pubkey |-> addresses[i],
         mint |-> CustodyAccount(addresses[i]).mint,
         nativeObject |-> CustodyAccount(addresses[i])]]

\* Array.prototype.find with a test on one field: the index of the first
\* element whose field has the value, 0 if none
FindIndex(list, field, value) ==
    IF \E i \in 1..Len(list) : list[i][field] = value
    THEN CHOOSE i \in 1..Len(list) :
            list[i][field] = value /\ \A j \in 1..(i - 1) : list[j][field] # value
    ELSE 0

\* what a call gives: a value, or an Error thrown
Value(v) == [ok |-> TRUE, value |-> v]
Thrown(message) == [ok |-> FALSE, error |-> PlainError(message)]

\* (mutant) the first custody stands in for a missing one
getCustodyByMint_Fallback(mint) ==
    LET i == FindIndex(custodies, "mint", mint) IN
    IF i # 0 THEN Value(custodies[i])
    ELSE IF custodies # <<>> THEN Value(custodies[1])
    ELSE Thrown("Error: Cannot find custody for mint")

getCustodyByMint(mint) ==
    LET i == FindIndex(custodies, "mint", mint) IN
    IF i = 0
    THEN Thrown("Error: Cannot find custody for mint")
    ELSE Value(custodies[i])

\* getStakingRewardTokenMint: the mint of the token whose symbol is USDC
getStakingRewardTokenMint ==
    IF FindIndex(custodies, "mint", "USDC") = 0
    THEN Thrown("Error: Cannot find staking reward token mint")
    ELSE Value("USDC")

AccountMeta(pubkey) == [pubkey |-> pubkey, isSigner |-> FALSE, isWritable |-> FALSE]

\* (mutant) a new trade oracle is put in front of the ones collected so far
TradeOracleStep_Prepend(metadataArr, custody) ==
    IF custody.nativeObject.oracle = custody.nativeObject.tradeOracle
    THEN metadataArr
    ELSE <<AccountMeta(custody.nativeObject.tradeOracle)>> \o metadataArr

\* the callback of custodiesAddresses.reduce, once the custody is found
TradeOracleStep(metadataArr, custody) ==
    IF custody.nativeObject.oracle = custody.nativeObject.tradeOracle
    THEN metadataArr
    ELSE Append(metadataArr, AccountMeta(custody.nativeObject.tradeOracle))

RECURSIVE TradeOracles(_, _)
\* custodiesAddresses.reduce(..., []) over the first n addresses
TradeOracles(addresses, n) ==
    IF n = 0 THEN <<>>
    ELSE TradeOracleStep(
            TradeOracles(addresses, n - 1),
            custodies[FindIndex(custodies, "pubkey", addresses[n])])

prepareCustodiesForRemainingAccounts ==
    LET addresses == custodiesAddresses(mainPool)
        found(pubkey) == FindIndex(custodies, "pubkey", pubkey)
    IN
    IF \E i \in 1..Len(addresses) : found(addresses[i]) = 0
    THEN Thrown("Error: Custody not found")
    ELSE Value(
        [i \in 1..Len(addresses) |-> AccountMeta(addresses[i])]
        \o [i \in 1..Len(addresses) |->
                AccountMeta(custodies[found(addresses[i])].nativeObject.oracle)]
        \o TradeOracles(addresses, Len(addresses)))

\* findATAAddressSync(owner, mint)
findATAAddressSync(owner, mint) == <<"ata", owner, mint>>

\* createAssociatedTokenAccountInstruction(payer = owner, ataAddress, owner, mint)
createATAInstruction(ataAddress, mint, owner) ==
    Instruction("createAssociatedTokenAccount",
                [payer |-> owner, associatedToken |-> ataAddress,
                 owner |-> owner, mint |-> mint])

\* what connection.getAccountInfo(ataAddress) can give
AccountInfoResults == {"initialized", "null", "failed"}

\* (mutant) the creation instruction is put in front of the list
checkATAAddressInitializedAndCreatePreInstruction_Unshift(mint, owner, list, accountInfo) ==
    IF accountInfo = "failed"
    THEN Thrown("Error: ATA account for owner and mint could not be created")
    ELSE Value([ataAddress |-> findATAAddressSync(owner, mint),
                preInstructions |->
                    IF accountInfo = "null"
                    THEN <<createATAInstruction(findATAAddressSync(owner, mint), mint, owner)>>
                         \o list
                    ELSE list])

\* checkATAAddressInitializedAndCreatePreInstruction once getAccountInfo has
\* answered: the address it returns and the caller's list as it leaves it
checkATAAddressInitializedAndCreatePreInstruction(mint, owner, list, accountInfo) ==
    IF accountInfo = "failed"
    THEN Thrown("Error: ATA account for owner and mint could not be created")
    ELSE Value([ataAddress |-> findATAAddressSync(owner, mint),
                preInstructions |->
                    IF accountInfo = "null"
                    THEN Append(list,
                            createATAInstruction(findATAAddressSync(owner, mint), mint, owner))
                    ELSE list])

\* the wallet that runs the operations
Owner == "owner"

\* the submission's variables an operation does not touch before it hands over
submissionRest ==
    <<ready, priorityFeeOption, maxPriorityFee, walletName,
      priorityFeeMicroLamports, computeUnitUsed, retry, signedTransaction,
      txSignatureBase58, txIsConfirmed, confirmTxRet, elapsed, loopStart,
      outcome, notifLog, stages, signCalls, sendCalls, statusCalls,
      sendsSincePoll, sentPayloads, reportedHashes, feeLookup, attempts>>

CustodyInit ==
    /\ ready \in BOOLEAN
    /\ SubmissionIdle
    /\ TranslateIdle
    /\ AtaIdle
    /\ PnlIdle
    /\ CalcIdle
    /\ PriceIdle
    /\ SimulateIdle
    /\ \E list \in PoolCustodyLists : mainPool = [custodies |-> list]
    /\ custodies = loadCustodies(mainPool)
    /\ opPc = "idle"
    /\ opArgs = NoArgs
    /\ preInstructions = <<>>
    /\ opError = NoError

\* the operation's promise rejects
Reject(error) ==
    /\ opError' = error
    /\ opPc' = "rejected"
    /\ UNCHANGED <<pc, transaction>>

\* return this.signAndExecuteTxAlternative({ transaction, notification })
HandOver(instructions) ==
    /\ transaction' = [recentBlockhash |-> "none", instructions |-> instructions]
    /\ pc' = "start"
    /\ opPc' = "handedOver"
    /\ UNCHANGED opError

\* swap: the connection check, then the ATA of mintB is looked up
SwapStart ==
    /\ opPc = "idle"
    /\ \E mintA, mintB \in Mints :
          opArgs' = [kind |-> "swap", mintA |-> mintA, mintB |-> mintB]
    /\ IF ~ready
       THEN Reject(PlainError("Error: not connected"))
       ELSE /\ opPc' = "checkATA"
            /\ UNCHANGED <<opError, pc, transaction>>
    /\ UNCHANGED <<mainPool, custodies, preInstructions, submissionRest, besidesCustody>>

\* swap: getAccountInfo answered
SwapCheckATA ==
    /\ opPc = "checkATA"
    /\ \E accountInfo \in AccountInfoResults :
          LET checked == checkATAAddressInitializedAndCreatePreInstruction(
                            opArgs.mintB, Owner, preInstructions, accountInfo) IN
          IF checked.ok
          THEN /\ preInstructions' = checked.value.preInstructions
               /\ opPc' = "loadUserProfile"
               /\ UNCHANGED <<opError, pc, transaction>>
          ELSE /\ Reject(checked.error)
               /\ UNCHANGED preInstructions
    /\ UNCHANGED <<mainPool, custodies, opArgs, submissionRest, besidesCustody>>

\* buildSwapTx: the accounts of the swap instruction, or the first lookup
\* that throws
buildSwapTx(mintA, mintB) ==
    LET receiving == getCustodyByMint(mintA)
        dispensing == getCustodyByMint(mintB)
        rewardMint == getStakingRewardTokenMint
    IN
    IF ~receiving.ok THEN receiving
    ELSE IF ~dispensing.ok THEN dispensing
    ELSE IF ~rewardMint.ok THEN rewardMint
    ELSE IF ~getCustodyByMint(rewardMint.value).ok THEN getCustodyByMint(rewardMint.value)
    ELSE Value(Instruction("operation",
            [name |-> "swap",
             receivingCustodyOracle |-> receiving.value.nativeObject.oracle,
             dispensingCustodyOracle |-> dispensing.value.nativeObject.oracle,
             stakingRewardTokenCustody |-> getCustodyByMint(rewardMint.value).value.pubkey,
             remainingAccounts |-> <<>>]))

\* swap: the user profile is loaded, the transaction is built and handed to
\* signAndExecuteTxAlternative
SwapBuild ==
    /\ opPc = "loadUserProfile"
    /\ LET built == buildSwapTx(opArgs.mintA, opArgs.mintB) IN
       IF built.ok
       THEN HandOver(preInstructions \o <<built.value>>)
       ELSE Reject(built.error)
    /\ UNCHANGED <<mainPool, custodies, opArgs, preInstructions,
                   submissionRest, besidesCustody>>

\* addLiquidity and buildAddLiquidityTx up to custody.fetchMultiple
AddLiquidityStart ==
    /\ opPc = "idle"
    /\ \E mint \in Mints :
          opArgs' = [kind |-> "addLiquidity", mintA |-> mint, mintB |-> mint]
    /\ IF ~ready
       THEN Reject(PlainError("Error: not connected"))
       ELSE /\ opPc' = "fetchMultiple"
            /\ UNCHANGED <<opError, pc, transaction>>
    /\ UNCHANGED <<mainPool, custodies, preInstructions, submissionRest, besidesCustody>>

\* buildAddLiquidityTx: the custodies were fetched, the custody of the mint
\* is looked up and the ATA of the LP token is checked
AddLiquidityFetched ==
    /\ opPc = "fetchMultiple"
    /\ \E loaded \in BOOLEAN :
          IF ~loaded THEN Reject(PlainError("Error: Cannot load custodies"))
          ELSE IF ~getCustodyByMint(opArgs.mintA).ok
               THEN Reject(getCustodyByMint(opArgs.mintA).error)
          ELSE /\ opPc' = "checkATA(lp)"
               /\ UNCHANGED <<opError, pc, transaction>>
    /\ UNCHANGED <<mainPool, custodies, opArgs, preInstructions,
                   submissionRest, besidesCustody>>

\* buildAddLiquidityTx after the ATA check: the rest of the accounts, or the
\* first lookup that throws
buildAddLiquidityTx(mint) ==
    LET rewardMint == getStakingRewardTokenMint
        remaining == prepareCustodiesForRemainingAccounts
    IN
    IF ~rewardMint.ok THEN rewardMint
    ELSE IF ~getCustodyByMint(rewardMint.value).ok THEN getCustodyByMint(rewardMint.value)
    ELSE IF ~remaining.ok THEN remaining
    ELSE Value(Instruction("operation",
            [name |-> "addLiquidity",
             custodyOracle |-> getCustodyByMint(mint).value.nativeObject.oracle,
             stakingRewardTokenCustody |-> getCustodyByMint(rewardMint.value).value.pubkey,
             remainingAccounts |-> remaining.value]))

\* addLiquidity: getAccountInfo answered, the transaction is built and handed
\* to signAndExecuteTxAlternative
AddLiquidityBuild ==
    /\ opPc = "checkATA(lp)"
    /\ \E accountInfo \in AccountInfoResults :
          LET checked == checkATAAddressInitializedAndCreatePreInstruction(
                            "ALP", Owner, preInstructions, accountInfo)
              built == buildAddLiquidityTx(opArgs.mintA)
          IN
          IF ~checked.ok
          THEN Reject(checked.error) /\ UNCHANGED preInstructions
          ELSE /\ preInstructions' = checked.value.preInstructions
               /\ IF built.ok
                  THEN HandOver(preInstructions' \o <<built.value>>)
                  ELSE Reject(built.error)
    /\ UNCHANGED <<mainPool, custodies, opArgs, submissionRest, besidesCustody>>

CustodyNext ==
    \/ SwapStart
    \/ SwapCheckATA
    \/ SwapBuild
    \/ AddLiquidityStart
    \/ AddLiquidityFetched
    \/ AddLiquidityBuild

CustodySpec == CustodyInit /\ [][CustodyNext]_vars

\* the mints the running operation needs a custody for
RequiredMints ==
    IF opArgs.kind = "none" THEN {} ELSE {opArgs.mintA, opArgs.mintB}

\* the loaded custodies whose mint is the given one
CustodiesOfMint(mint) ==
    { custodies[i] : i \in { j \in 1..Len(custodies) : custodies[j].mint = mint } }

\* the operation instruction of the transaction that was handed over
HandedOver == transaction.instructions[Len(transaction.instructions)].value

\* C14: getCustodyByMint gives the loaded custody whose mint is the argument
\* and throws the not-found error for every mint without a loaded custody; an
\* operation given such a mint never hands a transaction to
\* signAndExecuteTxAlternative (no signTransaction, no sendRawTransaction), and
\* an operation that does hand one over uses the oracle of the custody of
\* each of its mints.
C14_MissingCustodyRejects ==
    /\ \A mint \in Mints :
          IF CustodiesOfMint(mint) = {}
          THEN getCustodyByMint(mint) = Thrown("Error: Cannot find custody for mint")
          ELSE /\ getCustodyByMint(mint).ok
               /\ getCustodyByMint(mint).value \in CustodiesOfMint(mint)
    /\ (\E mint \in RequiredMints : CustodiesOfMint(mint) = {})
          => /\ opPc # "handedOver"
             /\ pc = "idle"
             /\ transaction = NoTransaction
             /\ signCalls = 0
             /\ sendCalls = 0
    /\ (opPc = "handedOver" /\ opArgs.kind = "swap")
          => /\ \E c \in CustodiesOfMint(opArgs.mintA) :
                  HandedOver.receivingCustodyOracle = c.nativeObject.oracle
             /\ \E c \in CustodiesOfMint(opArgs.mintB) :
                  HandedOver.dispensingCustodyOracle = c.nativeObject.oracle

\* a swap whose ATA check went through was rejected because mintB has no
\* custody while other custodies are loaded
C14_Witness ==
    /\ opPc = "rejected"
    /\ opArgs.kind = "swap"
    /\ preInstructions # <<>>
    /\ CustodiesOfMint(opArgs.mintA) # {}
    /\ CustodiesOfMint(opArgs.mintB) = {}
    /\ opError = PlainError("Error: Cannot find custody for mint")

\* the positions of the pool's custodies whose trade oracle is not their oracle
TradeOraclePositions(addresses) ==
    { i \in 1..Len(addresses) :
        CustodyAccount(addresses[i]).tradeOracle # CustodyAccount(addresses[i]).oracle }

\* the k-th smallest member of a set of positions
Nth(positions, k) ==
    CHOOSE i \in positions : Cardinality({ j \in positions : j < i }) = k - 1

\* C18: the remaining accounts are the pool's custody addresses without the
\* default sentinel, in pool order, then the oracle of each of them in the same
\* order, then the trade oracle of each custody whose trade oracle differs from
\* its oracle, in the same order; none is a signer or writable.
C18_RemainingAccountsOrder ==
    (opPc = "handedOver" /\ opArgs.kind = "addLiquidity") =>
        LET addresses == SelectSeq(mainPool.custodies, LAMBDA a : a # PublicKeyDefault)
            n == Len(addresses)
            positions == TradeOraclePositions(addresses)
            accounts == HandedOver.remainingAccounts
        IN
        /\ Len(accounts) = 2 * n + Cardinality(positions)
        /\ \A i \in 1..Len(accounts) : ~accounts[i].isSigner /\ ~accounts[i].isWritable
        /\ \A i \in 1..n :
              /\ accounts[i].pubkey = addresses[i]
              /\ accounts[n + i].pubkey = CustodyAccount(addresses[i]).oracle
        /\ \A k \in 1..Cardinality(positions) :
              accounts[2 * n + k].pubkey
                 = CustodyAccount(addresses[Nth(positions, k)]).tradeOracle

\* a pool with an unused slot before two custodies that have a trade oracle
\* of their own, listed against the order of their addresses
C18_Witness ==
    /\ opPc = "handedOver"
    /\ opArgs.kind = "addLiquidity"
    /\ mainPool.custodies[1] = PublicKeyDefault
    /\ \E i \in 1..PoolSlots : mainPool.custodies[i] = "custodyUSDC"
    /\ \E i, j \in 1..PoolSlots :
          /\ i < j
          /\ mainPool.custodies[i] = "custodyWBTC"
          /\ mainPool.custodies[j] = "custodyBONK"
    /\ Len(HandedOver.remainingAccounts) > 4

-----------------------------------------------------------------------------
(* Associated token accounts: concurrent callers of                        *)
(* checkATAAddressInitializedAndCreatePreInstruction and the transactions  *)
(* they build                                                              *)

AtaCallers == {"first", "second"}

AtaMints == {"USDC", "SOL"}

\* the preInstructions lists a caller can pass
CallerLists ==
    { <<>>, <<Instruction("pre", 1)>>, <<Instruction("pre", 1), Instruction("pre", 2)>> }

\* a caller that has not called yet
NoCall ==
    [pc |-> "idle", mint |-> "none", given |-> <<>>, list |-> <<>>, reads |-> 0,
     accountInfo |-> "none", ret |-> NotComputed, execution |-> "none"]

AtaInit ==
    /\ ready \in BOOLEAN
    /\ SubmissionIdle
    /\ TranslateIdle
    /\ CustodyIdle
    /\ PnlIdle
    /\ CalcIdle
    /\ PriceIdle
    /\ SimulateIdle
    /\ tokenAccounts \in SUBSET { findATAAddressSync(Owner, mint) : mint \in AtaMints }
    /\ ataCalls = [c \in AtaCallers |-> NoCall]

\* the call starts: if (!this.connection) throw, caught and thrown again as
\* the 'could not be created' error; otherwise getAccountInfo is awaited
AtaCall(c) ==
    /\ ataCalls[c].pc = "idle"
    /\ \E mint \in AtaMints, given \in CallerLists :
          ataCalls' = [ataCalls EXCEPT ![c] =
             IF ready
             THEN [@ EXCEPT !.pc = "getAccountInfo", !.mint = mint,
                            !.given = given, !.list = given]
             ELSE [@ EXCEPT !.pc = "thrown", !.mint = mint,
                            !.given = given, !.list = given,
                            !.ret = checkATAAddressInitializedAndCreatePreInstruction(
                                        mint, Owner, given, "failed")]]
    /\ UNCHANGED <<tokenAccounts, submissionVars, besidesAta>>

\* connection.getAccountInfo(ataAddress) answers with what is on chain now,
\* or fails
AtaRead(c) ==
    /\ ataCalls[c].pc = "getAccountInfo"
    /\ \E accountInfo \in
            { IF findATAAddressSync(Owner, ataCalls[c].mint) \in tokenAccounts
              THEN "initialized" ELSE "null", "failed" } :
          LET ret == checkATAAddressInitializedAndCreatePreInstruction(
                        ataCalls[c].mint, Owner, ataCalls[c].list, accountInfo) IN
          ataCalls' = [ataCalls EXCEPT ![c] =
             [@ EXCEPT !.pc = IF ret.ok THEN "returned" ELSE "thrown",
                       !.reads = @ + 1,
                       !.accountInfo = accountInfo,
                       !.ret = ret,
                       !.list = IF ret.ok THEN ret.value.preInstructions ELSE @]]
    /\ UNCHANGED <<tokenAccounts, submissionVars, besidesAta>>

RECURSIVE ExecuteInstructions(_, _)
\* the on-chain execution of a list of instructions: the associated token
\* program's create instruction fails when the account is already there
ExecuteInstructions(instructions, accounts) ==
    IF instructions = <<>> THEN [ok |-> TRUE, accounts |-> accounts]
    ELSE LET ix == Head(instructions) IN
         IF ix.kind = "createAssociatedTokenAccount"
         THEN IF ix.value.associatedToken \in accounts
              THEN [ok |-> FALSE, accounts |-> accounts]
              ELSE ExecuteInstructions(Tail(instructions),
                                       accounts \cup {ix.value.associatedToken})
         ELSE ExecuteInstructions(Tail(instructions), accounts)

\* the caller's transaction, with the list as its pre-instructions, is
\* executed on chain (a failed transaction changes nothing)
AtaExecute(c) ==
    /\ ataCalls[c].pc = "returned"
    /\ LET executed == ExecuteInstructions(ataCalls[c].list, tokenAccounts) IN
          /\ tokenAccounts' = IF executed.ok THEN executed.accounts ELSE tokenAccounts
          /\ ataCalls' = [ataCalls EXCEPT ![c] =
                [@ EXCEPT !.pc = "executed",
                          !.execution = IF executed.ok THEN "ok" ELSE "failed"]]
    /\ UNCHANGED <<submissionVars, besidesAta>>

AtaNext ==
    \E c \in AtaCallers :
        \/ AtaCall(c)
        \/ AtaRead(c)
        \/ AtaExecute(c)

AtaSpec == AtaInit /\ [][AtaNext]_vars

\* C15: a call that returns has made exactly one account-existence read and
\* returns the associated token address of (owner, mint); the caller's list
\* is the list it passed, followed by exactly one creation instruction if and
\* only if the read found no account; a call that throws made at most one read
\* and leaves the list as it was.
C15_OneReadOneAppend ==
    \A c \in AtaCallers :
        LET call == ataCalls[c]
            n == Len(call.given)
        IN
        /\ call.reads <= 1
        /\ SubSeq(call.list, 1, n) = call.given
        /\ call.pc \in {"returned", "executed"} =>
              /\ call.reads = 1
              /\ call.ret = Value([ataAddress |-> findATAAddressSync(Owner, call.mint),
                                   preInstructions |-> call.list])
              /\ Len(call.list) = n + (IF call.accountInfo = "null" THEN 1 ELSE 0)
              /\ call.accountInfo = "null" =>
                    /\ call.list[n + 1].kind = "createAssociatedTokenAccount"
                    /\ call.list[n + 1].value.associatedToken
                          = findATAAddressSync(Owner, call.mint)
                    /\ call.list[n + 1].value.mint = call.mint
                    /\ call.list[n + 1].value.owner = Owner
        /\ call.pc = "thrown" => call.list = call.given

\* one call appended a creation instruction behind two entries, another one
\* found the account and appended nothing
C15_Witness ==
    \E c, d \in AtaCallers :
        /\ ataCalls[c].pc = "returned"
        /\ Len(ataCalls[c].given) = 2
        /\ Len(ataCalls[c].list) = 3
        /\ ataCalls[d].pc = "returned"
        /\ ataCalls[d].accountInfo = "initialized"
        /\ ataCalls[d].list = ataCalls[d].given
        /\ ataCalls[d].given # <<>>

\* C16: no transaction of a caller fails on chain because the account it
\* creates was created by the other caller first.
C16_NoDuplicateCreation ==
    \A c \in AtaCallers : ataCalls[c].execution # "failed"

-----------------------------------------------------------------------------
(* IEEE 754 double arithmetic, as JavaScript numbers compute it             *)

\* Naturals beyond the range of the checker's integers are kept as limbs of
\* 15 bits, lowest limb first, without leading zero limbs; 0 is <<>>.
LimbBits == 15
LimbBase == 32768
MantissaBits == 53

RECURSIVE BigOfInt(_)
BigOfInt(n) ==
    IF n = 0 THEN <<>> ELSE <<n % LimbBase>> \o BigOfInt(n \div LimbBase)

RECURSIVE BigToInt(_)
BigToInt(x) ==
    IF x = <<>> THEN 0 ELSE x[1] + LimbBase * BigToInt(Tail(x))

RECURSIVE BigTrim(_)
BigTrim(x) ==
    IF x # <<>> /\ x[Len(x)] = 0 THEN BigTrim(SubSeq(x, 1, Len(x) - 1)) ELSE x

RECURSIVE BigMulCarry(_, _, _)
BigMulCarry(x, k, carry) ==
    IF x = <<>> THEN BigOfInt(carry)
    ELSE LET t == x[1] * k + carry
         IN <<t % LimbBase>> \o BigMulCarry(Tail(x), k, t \div LimbBase)

\* x * k for 0 <= k <= LimbBase
BigMulSmall(x, k) == BigTrim(BigMulCarry(x, k, 0))

RECURSIVE BigDivSmall(_, _)
\* quotient and remainder of x by k, 0 < k <= LimbBase
BigDivSmall(x, k) ==
    IF x = <<>> THEN [q |-> <<>>, r |-> 0]
    ELSE LET hi == BigDivSmall(Tail(x), k)
             t == hi.r * LimbBase + x[1]
         IN [q |-> BigTrim(<<t \div k>> \o hi.q), r |-> t % k]

RECURSIVE BigAddCarry(_, _, _)
BigAddCarry(x, y, carry) ==
    IF x = <<>> /\ y = <<>> THEN BigOfInt(carry)
    ELSE LET a == IF x = <<>> THEN 0 ELSE x[1]
             b == IF y = <<>> THEN 0 ELSE y[1]
             t == a + b + carry
         IN <<t % LimbBase>>
            \o BigAddCarry(IF x = <<>> THEN <<>> ELSE Tail(x),
                           IF y = <<>> THEN <<>> ELSE Tail(y),
                           t \div LimbBase)

BigAdd(x, y) == BigAddCarry(x, y, 0)

RECURSIVE BigShiftLimbs(_, _)
\* x * LimbBase^n
BigShiftLimbs(x, n) ==
    IF x = <<>> \/ n = 0 THEN x ELSE <<0>> \o BigShiftLimbs(x, n - 1)

RECURSIVE BigMul(_, _)
BigMul(x, y) ==
    IF y = <<>> THEN <<>>
    ELSE BigAdd(BigMulSmall(x, y[1]), BigShiftLimbs(BigMul(x, Tail(y)), 1))

RECURSIVE BitLength(_)
BitLength(n) == IF n = 0 THEN 0 ELSE 1 + BitLength(n \div 2)

BigBitLength(x) ==
    IF x = <<>> THEN 0 ELSE LimbBits * (Len(x) - 1) + BitLength(x[Len(x)])

\* x * 2^s
BigShiftLeft(x, s) ==
    BigShiftLimbs(BigMulSmall(x, 2^(s % LimbBits)), s \div LimbBits)

\* floor(x / 2^t), and whether bits were lost
BigShiftRight(x, t) ==
    LET limbs == t \div LimbBits
        kept == IF limbs >= Len(x) THEN <<>> ELSE SubSeq(x, limbs + 1, Len(x))
        lost == \E i \in 1..Len(x) : i <= limbs /\ x[i] # 0
        d == BigDivSmall(kept, 2^(t % LimbBits))
    IN [q |-> d.q, sticky |-> lost \/ d.r # 0]

BigIsOdd(x) == x # <<>> /\ x[1] % 2 = 1

\* a double is 0 or M * 2^E with 2^52 <= M < 2^53
DoubleZero == [M |-> <<>>, E |-> 0]

\* round to nearest, ties to even: the double nearest to x * 2^E, where
\* sticky tells that the true value lies strictly between x and x + 1
RoundToDouble(x, sticky, E) ==
    LET n == BigBitLength(x) IN
    IF n = 0 THEN DoubleZero
    ELSE IF n <= MantissaBits
    THEN [M |-> BigShiftLeft(x, MantissaBits - n), E |-> E - (MantissaBits - n)]
    ELSE LET t == n - MantissaBits
             s1 == BigShiftRight(x, t - 1)
             floorM == BigDivSmall(s1.q, 2).q
             half == BigIsOdd(s1.q)
             up == half /\ (sticky \/ s1.sticky \/ BigIsOdd(floorM))
             M == IF up THEN BigAdd(floorM, <<1>>) ELSE floorM
         IN IF BigBitLength(M) > MantissaBits
            THEN [M |-> BigDivSmall(M, 2).q, E |-> E + t + 1]
            ELSE [M |-> M, E |-> E + t]

RECURSIVE BigTimesTen(_, _)
\* x * 10^k
BigTimesTen(x, k) == IF k = 0 THEN x ELSE BigTimesTen(BigMulSmall(x, 10), k - 1)

RECURSIVE BigOverTen(_, _, _)
\* floor(x / 10^k), and whether a remainder was lost
BigOverTen(x, k, sticky) ==
    IF k = 0 THEN [q |-> x, sticky |-> sticky]
    ELSE LET d == BigDivSmall(x, 10)
         IN BigOverTen(d.q, k - 1, sticky \/ d.r # 0)

\* the double a decimal literal m x 10^e denotes (m >= 0)
DoubleOfDecimal(m, e) ==
    IF m = 0 THEN DoubleZero
    ELSE IF e >= 0 THEN RoundToDouble(BigTimesTen(BigOfInt(m), e), FALSE, 0)
    ELSE LET s == MantissaBits + 3 + 4 * (-e)
             d == BigOverTen(BigShiftLeft(BigOfInt(m), s), -e, FALSE)
         IN RoundToDouble(d.q, d.sticky, -s)

\* a * b on numbers
DoubleTimes(a, b) ==
    IF a.M = <<>> \/ b.M = <<>> THEN DoubleZero
    ELSE RoundToDouble(BigMul(a.M, b.M), FALSE, a.E + b.E)

\* Math.floor of a number that fits the checker's integers
DoubleFloor(a) ==
    IF a.M = <<>> THEN 0
    ELSE IF a.E >= 0 THEN BigToInt(BigShiftLeft(a.M, a.E))
    ELSE BigToInt(BigShiftRight(a.M, -a.E).q)

(* Position arithmetic: calculatePositionBorrowFee and calculatePositionPnL *)

PRICE_DECIMALS == 10
USD_DECIMALS == 6
SECONDS_PER_HOUR == 3600
RATE_PRECISION == 1000000000
MS_PER_SECOND == 1000

\* A JavaScript number read from a decimal text is kept as that decimal,
\* m x 10^e (m >= 0): it stands for the double nearest to it.
Ui(m, e) == [m |-> m, e |-> e]

\* the double a number of the model stands for
AsDouble(nb) ==
    IF "m" \in DOMAIN nb THEN DoubleOfDecimal(nb.m, nb.e) ELSE nb

\* new BigNumber(nb.toString()).shiftedBy(-decimals).toNumber()
nativeToUi(nb, decimals) == Ui(nb, -decimals)

\* new BN(Math.floor(nb * 10 ** decimals).toString())
uiToNative(nb, decimals) ==
    DoubleFloor(DoubleTimes(AsDouble(nb), DoubleOfDecimal(1, decimals)))

\* a * b on numbers
UiTimes(a, b) == DoubleTimes(AsDouble(a), AsDouble(b))

\* low.add(high.mul(new BN(2).pow(new BN(64)))).  The accumulators of the
\* model have a high half of 0: 2^64 is beyond the integers of the checker.
SplitToBN(split) ==
    IF split.high = 0 THEN split.low
    ELSE split.low + split.high * (2^32) * (2^32)

\* config.tokensInfo[mint].decimals
TokenDecimals(mint) == IF mint = "SOL" THEN 9 ELSE 6

\* calculatePositionBorrowFee at Date.now() = nowMs.  The value of
\* cumulativeInterest.add(newCumulativeInterest) is dropped: BN.add returns a
\* new number and leaves cumulativeInterest as it is.
calculatePositionBorrowFee(custody, pos, nowMs) ==
    LET currentTime == nowMs \div MS_PER_SECOND
        state == custody.nativeObject.borrowRateState
        cumulativeInterest == SplitToBN(state.cumulativeInterest)
        newCumulativeInterest ==    \* computed, added to nothing
            IF currentTime > state.lastUpdate
            THEN ((currentTime - state.lastUpdate) * state.currentRate) \div SECONDS_PER_HOUR
            ELSE 0
        cumulativeInterestSnapshot == SplitToBN(pos.nativeObject.cumulativeInterestSnapshot)
        positionInterest ==
            IF cumulativeInterest > cumulativeInterestSnapshot
            THEN cumulativeInterest - cumulativeInterestSnapshot
            ELSE 0
    IN (positionInterest * pos.nativeObject.borrowSizeUsd) \div RATE_PRECISION
        + pos.nativeObject.unrealizedInterestUsd

\* getCustodyByPubkey: this.custodies.find(...) ?? null
getCustodyByPubkey(pubkey) ==
    LET i == FindIndex(custodies, "pubkey", pubkey) IN
    IF i = 0 THEN [ok |-> FALSE] ELSE Value(custodies[i])

\* priceDiffProfit and priceDiffLoss
PriceDiff(side, exitPrice, entryPrice) ==
    IF side = "long"
    THEN IF exitPrice > entryPrice
         THEN [profit |-> exitPrice - entryPrice, loss |-> 0]
         ELSE [profit |-> 0, loss |-> entryPrice - exitPrice]
    ELSE IF exitPrice < entryPrice
         THEN [profit |-> entryPrice - exitPrice, loss |-> 0]
         ELSE [profit |-> 0, loss |-> exitPrice - entryPrice]

\* (mutant) the open time is not looked at
maxProfitUsd_AlwaysLocked(nowMs, pos, collateralTokenPriceUi, decimals) ==
    uiToNative(UiTimes(collateralTokenPriceUi,
                       nativeToUi(pos.nativeObject.lockedAmount, decimals)),
               USD_DECIMALS)

\* maxProfitUsd: new BN(Date.now()).lte(openTime) ? 0 : the USD value of the
\* locked amount
maxProfitUsd(nowMs, pos, collateralTokenPriceUi, decimals) ==
    IF nowMs <= pos.nativeObject.openTime
    THEN 0
    ELSE uiToNative(UiTimes(collateralTokenPriceUi,
                            nativeToUi(pos.nativeObject.lockedAmount, decimals)),
                    USD_DECIMALS)

\* the null calculatePositionPnL returns
PnlNull == [computed |-> TRUE, null |-> TRUE]

PnlResult(profitUsd, lossUsd, borrowFeeUsd) ==
    [computed |-> TRUE, null |-> FALSE,
     profitUsd |-> profitUsd, lossUsd |-> lossUsd, borrowFeeUsd |-> borrowFeeUsd]

calculatePositionPnL(pos, prices, borrowState, nowMs) ==
    LET custody == getCustodyByPubkey(pos.custody)
        collateral == getCustodyByPubkey(pos.collateralCustody)
    IN
    IF ~custody.ok \/ ~collateral.ok THEN PnlNull
    ELSE
    LET exitPriceUi == prices[custody.value.mint]
        collateralTokenPriceUi == prices[collateral.value.mint]
    IN
    IF exitPriceUi.m = 0 \/ collateralTokenPriceUi.m = 0 THEN PnlNull
    ELSE
    LET exitPrice == uiToNative(exitPriceUi, PRICE_DECIMALS)
        entryPrice == pos.nativeObject.price
        fee == calculatePositionBorrowFee(borrowState, pos, nowMs)
        unrealizedLossUsd == pos.nativeObject.exitFeeUsd + fee
        diff == PriceDiff(pos.side, exitPrice, entryPrice)
        potentialProfitUsd == (pos.nativeObject.sizeUsd * diff.profit) \div entryPrice
        curProfitUsd == potentialProfitUsd - unrealizedLossUsd
        cap == maxProfitUsd(nowMs, pos, collateralTokenPriceUi,
                            TokenDecimals(collateral.value.mint))
        potentialLossUsd ==
            (pos.nativeObject.sizeUsd * diff.loss) \div entryPrice + unrealizedLossUsd
    IN
    IF diff.profit > 0
    THEN IF potentialProfitUsd >= unrealizedLossUsd
         THEN PnlResult(nativeToUi(IF cap <= curProfitUsd THEN cap ELSE curProfitUsd,
                                   USD_DECIMALS),
                        Ui(0, 0),
                        nativeToUi(fee, USD_DECIMALS))
         ELSE PnlResult(Ui(0, 0),
                        nativeToUi(unrealizedLossUsd - potentialProfitUsd, USD_DECIMALS),
                        nativeToUi(fee, USD_DECIMALS))
    ELSE PnlResult(Ui(0, 0),
                   nativeToUi(potentialLossUsd, USD_DECIMALS),
                   nativeToUi(fee, USD_DECIMALS))

\* Date.now() at the moments the position is looked at
ClockValues == {999500, 1000000, 1002500, 1004000}

\* borrowRateState of the collateral custody (lastUpdate in seconds)
BorrowRateStates ==
    { [nativeObject |-> [borrowRateState |->
          [cumulativeInterest |-> [high |-> 0, low |-> low],
           lastUpdate |-> 1000,
           currentRate |-> rate]]] :
        low \in {1, 3}, rate \in {0, 1800} }

\* a long on SOL, a short on SOL with USDC collateral, and a position whose
\* custody is not loaded
Positions ==
    { [side |-> kind.side, custody |-> kind.custody,
       collateralCustody |-> kind.collateralCustody,
       nativeObject |->
          [price |-> 4000000,
           sizeUsd |-> sizeUsd,
           exitFeeUsd |-> exitFeeUsd,
           lockedAmount |-> IF kind.side = "long" THEN locked * 200000 ELSE locked,
           openTime |-> openTime,
           borrowSizeUsd |-> 400000000,
           unrealizedInterestUsd |-> unrealized,
           cumulativeInterestSnapshot |-> [high |-> 0, low |-> snapshot]]] :
        kind \in { [side |-> "long", custody |-> "custodySOL",
                    collateralCustody |-> "custodySOL"],
                   [side |-> "short", custody |-> "custodySOL",
                    collateralCustody |-> "custodyUSDC"],
                   [side |-> "long", custody |-> "custodyBONK",
                    collateralCustody |-> "custodyBONK"] },
        sizeUsd \in {40, 200},
        exitFeeUsd \in {0, 30},
        locked \in {50, 1000},
        openTime \in {1000, 1002500},
        unrealized \in {0, 7},
        snapshot \in {0, 2} }

\* tokenPrices: the price of SOL is missing, or one of four prices
TokenPrices ==
    { [symbol \in {"USDC", "SOL"} |->
          IF symbol = "USDC" THEN Ui(1, 0) ELSE Ui(sol, -4)] : sol \in {0, 2, 4, 6, 8} }

PnlInit ==
    /\ ready = TRUE
    /\ SubmissionIdle
    /\ TranslateIdle
    /\ AtaIdle
    /\ CalcIdle
    /\ PriceIdle
    /\ SimulateIdle
    /\ mainPool = [custodies |-> <<"custodyUSDC", PublicKeyDefault, "custodySOL">>]
    /\ custodies = loadCustodies(mainPool)
    /\ opPc = "idle"
    /\ opArgs = NoArgs
    /\ preInstructions = <<>>
    /\ opError = NoError
    /\ dateNow \in ClockValues
    /\ position \in Positions
    /\ collateralCustody \in BorrowRateStates
    /\ tokenPrices \in TokenPrices
    /\ interestUsd = 0
    /\ pnl = NotComputed

\* calculatePositionPnL({ position, tokenPrices }), which calls
\* calculatePositionBorrowFee({ position, collateralCustody })
CalculatePositionPnL ==
    /\ pnl = NotComputed
    /\ interestUsd' = calculatePositionBorrowFee(collateralCustody, position, dateNow)
    /\ pnl' = calculatePositionPnL(position, tokenPrices, collateralCustody, dateNow)
    /\ UNCHANGED <<dateNow, position, collateralCustody, tokenPrices,
                   submissionVars, besidesPnl>>

\* time passes; the position is looked at again
Tick ==
    /\ pnl # NotComputed
    /\ \E later \in ClockValues :
          /\ later > dateNow
          /\ dateNow' = later
    /\ interestUsd' = 0
    /\ pnl' = NotComputed
    /\ UNCHANGED <<position, collateralCustody, tokenPrices, submissionVars, besidesPnl>>

PnlNext ==
    \/ CalculatePositionPnL
    \/ Tick

PnlSpec == PnlInit /\ [][PnlNext]_vars

\* the borrow fee of the accrual formula: the increment projected since the
\* custody's last update is added to the accumulator and used
AccruedBorrowFee(custody, pos, nowMs) ==
    LET currentTime == nowMs \div MS_PER_SECOND
        state == custody.nativeObject.borrowRateState
        newCumulativeInterest ==
            IF currentTime > state.lastUpdate
            THEN ((currentTime - state.lastUpdate) * state.currentRate) \div SECONDS_PER_HOUR
            ELSE 0
        cumulativeInterest == SplitToBN(state.cumulativeInterest) + newCumulativeInterest
        cumulativeInterestSnapshot == SplitToBN(pos.nativeObject.cumulativeInterestSnapshot)
        positionInterest ==
            IF cumulativeInterest > cumulativeInterestSnapshot
            THEN cumulativeInterest - cumulativeInterestSnapshot
            ELSE 0
    IN (positionInterest * pos.nativeObject.borrowSizeUsd) \div RATE_PRECISION
        + pos.nativeObject.unrealizedInterestUsd


\* C19: calculatePositionBorrowFee returns max(0, C + I - S) x borrowSizeUsd
\* / 10^9 + unrealizedInterestUsd, with I = (now - lastUpdate) x currentRate /
\* 3600 the increment projected since the custody's last update.
C19_BorrowFeeAccrues ==
    pnl # NotComputed =>
        interestUsd = AccruedBorrowFee(collateralCustody, position, dateNow)

\* the quantities of the profit case
\* the exit price in native units, as uiToNative converts the quoted price
ExitPrice == uiToNative(tokenPrices["SOL"], PRICE_DECIMALS)
PriceMovedInFavour ==
    IF position.side = "long"
    THEN ExitPrice > position.nativeObject.price
    ELSE ExitPrice < position.nativeObject.price
PotentialProfitUsd ==
    (position.nativeObject.sizeUsd
        * (IF position.side = "long"
           THEN ExitPrice - position.nativeObject.price
           ELSE position.nativeObject.price - ExitPrice))
    \div position.nativeObject.price
NetProfitUsd == PotentialProfitUsd - (position.nativeObject.exitFeeUsd + interestUsd)

\* the USD value (6 decimals) of the locked amount at the collateral's price
LockedUsd ==
    LET mint == IF position.side = "short" THEN "USDC" ELSE "SOL" IN
    uiToNative(UiTimes(tokenPrices[mint],
                       nativeToUi(position.nativeObject.lockedAmount,
                                  TokenDecimals(mint))),
               USD_DECIMALS)

ProfitCase ==
    /\ pnl # NotComputed
    /\ ~pnl.null
    /\ PriceMovedInFavour
    /\ NetProfitUsd >= 0

Min(a, b) == IF a <= b THEN a ELSE b

-----------------------------------------------------------------------------
(* Helpers called on their own: one call, its arguments drawn at the start *)

BPS == 10000

\* the null calculateLiquidationPrice returns
NullPrice == [null |-> TRUE]
PriceValue(nb) == [null |-> FALSE, value |-> nb]

\* (mutant) every position is treated as a long
calculateLiquidationPrice_AsLong(pos) ==
    LET custody == getCustodyByPubkey(pos.custody) IN
    IF ~custody.ok THEN NullPrice
    ELSE IF pos.borrowFeeUsd.null THEN NullPrice
    ELSE
    LET entryPrice == pos.nativeObject.price
        unrealizedLossUsd ==
            pos.nativeObject.liquidationFeeUsd
                + uiToNative(pos.borrowFeeUsd.value, USD_DECIMALS)
        maxLossUsd ==
            (pos.nativeObject.sizeUsd * BPS)
                \div custody.value.nativeObject.pricing.maxLeverage
                + unrealizedLossUsd
        marginUsd == pos.nativeObject.collateralUsd
        maxPriceDiffScaled ==
            ((IF maxLossUsd >= marginUsd
              THEN maxLossUsd - marginUsd
              ELSE marginUsd - maxLossUsd) * BPS * entryPrice)
                \div (pos.nativeObject.sizeUsd * BPS)
    IN
    IF maxLossUsd >= marginUsd
    THEN PriceValue(nativeToUi(entryPrice + maxPriceDiffScaled, PRICE_DECIMALS))
    ELSE IF entryPrice > maxPriceDiffScaled
    THEN PriceValue(nativeToUi(entryPrice - maxPriceDiffScaled, PRICE_DECIMALS))
    ELSE PriceValue(Ui(0, 0))

calculateLiquidationPrice(pos) ==
    LET custody == getCustodyByPubkey(pos.custody) IN
    IF ~custody.ok THEN NullPrice
    ELSE IF pos.borrowFeeUsd.null THEN NullPrice
    ELSE
    LET entryPrice == pos.nativeObject.price
        unrealizedLossUsd ==
            pos.nativeObject.liquidationFeeUsd
                + uiToNative(pos.borrowFeeUsd.value, USD_DECIMALS)
        maxLossUsd ==
            (pos.nativeObject.sizeUsd * BPS)
                \div custody.value.nativeObject.pricing.maxLeverage
                + unrealizedLossUsd
        marginUsd == pos.nativeObject.collateralUsd
        maxPriceDiffScaled ==
            ((IF maxLossUsd >= marginUsd
              THEN maxLossUsd - marginUsd
              ELSE marginUsd - maxLossUsd) * BPS * entryPrice)
                \div (pos.nativeObject.sizeUsd * BPS)
    IN
    IF pos.side = "long"
    THEN IF maxLossUsd >= marginUsd
         THEN PriceValue(nativeToUi(entryPrice + maxPriceDiffScaled, PRICE_DECIMALS))
         ELSE IF entryPrice > maxPriceDiffScaled
         THEN PriceValue(nativeToUi(entryPrice - maxPriceDiffScaled, PRICE_DECIMALS))
         ELSE PriceValue(Ui(0, 0))
    ELSE IF maxLossUsd >= marginUsd
         THEN IF entryPrice > maxPriceDiffScaled
              THEN PriceValue(nativeToUi(entryPrice - maxPriceDiffScaled, PRICE_DECIMALS))
              ELSE PriceValue(Ui(0, 0))
         ELSE PriceValue(nativeToUi(entryPrice + maxPriceDiffScaled, PRICE_DECIMALS))

\* position.borrowFeeUsd: undefined or null, or a number of USD
BorrowFeeValues ==
    { [null |-> TRUE],
      [null |-> FALSE, value |-> Ui(0, 0)],
      [null |-> FALSE, value |-> Ui(7, -6)] }

\* open positions (sizeUsd > 0) on a custody that is loaded or not
LiquidationPositions ==
    { [side |-> side, custody |-> custody, borrowFeeUsd |-> borrowFeeUsd,
       nativeObject |->
          [price |-> price, sizeUsd |-> sizeUsd, collateralUsd |-> collateralUsd,
           liquidationFeeUsd |-> liquidationFeeUsd]] :
        side \in {"long", "short"},
        custody \in {"custodySOL", "custodyWBTC"},
        borrowFeeUsd \in BorrowFeeValues,
        price \in {30, 100},
        sizeUsd \in {40, 200},
        collateralUsd \in {2, 20, 30, 400},
        liquidationFeeUsd \in {0, 300} }

LiquidationRequests ==
    { [fn |-> "calculateLiquidationPrice", position |-> pos] :
        pos \in LiquidationPositions }

\* a / b on numbers, kept as a fraction; x / 0 is an infinity and 0 / 0 is NaN
NaN == [kind |-> "NaN"]
Infinity(sign) == [kind |-> "Infinity", sign |-> sign]
Fraction(num, den) == [kind |-> "finite", num |-> num, den |-> den]

Divide(a, b) ==
    IF b = 0
    THEN IF a = 0 THEN NaN ELSE Infinity(IF a > 0 THEN 1 ELSE -1)
    ELSE IF b > 0 THEN Fraction(a, b) ELSE Fraction(-a, -b)

\* a < b on numbers: false when either is NaN
Less(a, b) ==
    CASE a.kind = "NaN" \/ b.kind = "NaN" -> FALSE
      [] a.kind = "Infinity" -> a.sign < 0 /\ ~(b.kind = "Infinity" /\ b.sign < 0)
      [] b.kind = "Infinity" -> b.sign > 0
      [] OTHER -> a.num * b.den < b.num * a.den

\* Math.max and Math.min: NaN if either argument is NaN
MathMax(a, b) ==
    IF a.kind = "NaN" \/ b.kind = "NaN" THEN NaN ELSE IF Less(a, b) THEN b ELSE a
MathMin(a, b) ==
    IF a.kind = "NaN" \/ b.kind = "NaN" THEN NaN ELSE IF Less(b, a) THEN b ELSE a

\* the caps of the early-exit fee rate: 0.15 and 0.4
LowerCap == Fraction(15, 100)
UpperCap == Fraction(4, 10)

\* calculateCappedFeeForExitEarly at Date.now() = nowMs
calculateCappedFeeForExitEarly(lockedStake, nowMs) ==
    LET timeElapsed ==
            nowMs - (lockedStake.endTime * MS_PER_SECOND
                        - lockedStake.lockDuration * MS_PER_SECOND)
        timeRemaining == lockedStake.lockDuration * MS_PER_SECOND - timeElapsed
        feeRate == Divide(timeRemaining, lockedStake.lockDuration * MS_PER_SECOND)
    IN MathMin(MathMax(feeRate, LowerCap), UpperCap)

\* locked stakes (times in seconds) and the clock (milliseconds): before the
\* lock started, during it, at its end and after it
LockedStakes ==
    { [endTime |-> endTime, lockDuration |-> lockDuration] :
        endTime \in {1, 2, 3}, lockDuration \in {0, 1, 2} }

CappedFeeRequests ==
    { [fn |-> "calculateCappedFeeForExitEarly", lockedStake |-> stake, dateNow |-> nowMs] :
        stake \in LockedStakes,
        nowMs \in {0, 500, 1000, 1700, 1850, 2000, 2900, 3000, 5000} }

\* decimal values with up to four fractional digits, and decimal counts
UiValues ==
    { Ui(m, e) : m \in {0, 1, 3, 6, 58, 100, 435, 1005}, e \in {0, -1, -2, -3, -4} }

RoundTripRequests ==
    { [fn |-> "uiToNative", nb |-> nb, decimals |-> decimals] :
        nb \in UiValues, decimals \in {0, 1, 2, 6} }

\* the three results of loadUserVest
VestNull == [computed |-> TRUE, kind |-> "null"]
VestFalse == [computed |-> TRUE, kind |-> "false"]
VestExtended(pubkey, vest) ==
    [computed |-> TRUE, kind |-> "vest", pubkey |-> pubkey, vest |-> vest]

\* what account.vest.fetchNullable gives: null, or the vest account
NoVest == [present |-> FALSE, amount |-> 0]
VestAccounts == {NoVest} \cup { [present |-> TRUE, amount |-> a] : a \in {1, 2} }

getUserVestPda(walletAddress) == <<"vest", walletAddress>>

\* loadUserVest(walletAddress), fetchNullable giving vest
loadUserVest(readonlyAdrenaProgram, walletAddress, vest) ==
    IF ~readonlyAdrenaProgram THEN VestNull
    ELSE IF ~vest.present THEN VestNull
    ELSE VestExtended(getUserVestPda(walletAddress), vest)

LoadUserVestRequests ==
    { [fn |-> "loadUserVest", readonlyAdrenaProgram |-> program,
       walletAddress |-> wallet, vest |-> vest] :
        program \in BOOLEAN, wallet \in {"alice", "bob"}, vest \in VestAccounts }

RECURSIVE DecimalDigits(_)
\* BN.toString(): the decimal digits of n >= 0, the first digit first
DecimalDigits(n) ==
    IF n < 10 THEN <<n>> ELSE Append(DecimalDigits(n \div 10), n % 10)

RECURSIVE StringLess(_, _)
\* a < b on strings of digits: by the first character that differs, a proper
\* prefix being less
StringLess(a, b) ==
    IF b = <<>> THEN FALSE
    ELSE IF a = <<>> THEN TRUE
    ELSE IF a[1] # b[1] THEN a[1] < b[1]
    ELSE StringLess(Tail(a), Tail(b))

\* a >= b on two BN objects: the relational operators convert an object to a
\* primitive, which for a BN (it has no valueOf of its own) is its toString()
BNObjectsGreaterOrEqual(a, b) == ~StringLess(DecimalDigits(a), DecimalDigits(b))

NATIVE_MINT == "So11111111111111111111111111111111111111112"

createAssociatedTokenAccountIdempotentInstruction(payer, ata, owner, mint) ==
    [kind |-> "createAssociatedTokenAccountIdempotent", payer |-> payer,
     associatedToken |-> ata, owner |-> owner, mint |-> mint]
SystemProgramTransfer(fromPubkey, toPubkey, lamports) ==
    [kind |-> "transfer", fromPubkey |-> fromPubkey, toPubkey |-> toPubkey,
     lamports |-> lamports]
createSyncNativeInstruction(account) == [kind |-> "syncNative", account |-> account]

\* what getTokenAccountBalanceNullable gives: null, or the balance
NullBalance == [null |-> TRUE, amount |-> 0]
Balance(amount) == [null |-> FALSE, amount |-> amount]

\* createPrepareWSOLAccountInstructions, getTokenAccountBalanceNullable
\* giving balance
createPrepareWSOLAccountInstructions(amount, balance, owner, wsolATA) ==
    LET currentWSOLBalance == IF balance.null THEN 0 ELSE balance.amount
        instructions ==
            <<createAssociatedTokenAccountIdempotentInstruction(
                  owner, wsolATA, owner, NATIVE_MINT)>>
    IN
    IF amount = 0 \/ BNObjectsGreaterOrEqual(currentWSOLBalance, amount)
    THEN instructions
    ELSE instructions
            \o <<SystemProgramTransfer(owner, wsolATA, amount - currentWSOLBalance),
                 createSyncNativeInstruction(wsolATA)>>

LamportAmounts == {0, 5, 9, 10, 100}

PrepareWSOLRequests ==
    { [fn |-> "createPrepareWSOLAccountInstructions", amount |-> amount,
       balance |-> balance, owner |-> owner, wsolATA |-> <<"ata", owner, NATIVE_MINT>>] :
        amount \in LamportAmounts,
        balance \in {NullBalance} \cup { Balance(b) : b \in LamportAmounts },
        owner \in {"alice", "bob"} }

\* this.lmTokenMint: the mint of ADX
lmTokenMint == "ADX"

\* the three bootstrap calls of initUserStaking, one after the other, each on
\* the list the one before left; accountInfo gives what getAccountInfo answers
\* for the associated token account of a mint
initUserStakingPreInstructions(owner, stakedTokenMint, accountInfo) ==
    LET reward == checkATAAddressInitializedAndCreatePreInstruction(
                      "USDC", owner, <<>>, accountInfo["USDC"])
    IN
    IF ~reward.ok THEN reward
    ELSE
    LET staked == checkATAAddressInitializedAndCreatePreInstruction(
                      stakedTokenMint, owner, reward.value.preInstructions,
                      accountInfo[stakedTokenMint])
    IN
    IF ~staked.ok THEN staked
    ELSE checkATAAddressInitializedAndCreatePreInstruction(
             lmTokenMint, owner, staked.value.preInstructions, accountInfo[lmTokenMint])

\* initUserStaking up to the hand-over to signAndExecuteTxAlternative: the
\* error it throws, or the pre-instructions of the transaction it built
initUserStaking(connected, hasUSDC, owner, stakedTokenMint, accountInfo) ==
    IF ~connected THEN Thrown("Error: adrena program not ready")
    ELSE IF ~hasUSDC THEN Thrown("Error: USDC not found")
    ELSE LET last == initUserStakingPreInstructions(owner, stakedTokenMint, accountInfo)
         IN IF ~last.ok THEN last ELSE Value(last.value.preInstructions)

\* the mints a user can stake, and the mints whose accounts are looked up
StakedTokenMints == {"ADX", "ALP"}
StakingMints == {"USDC", "ADX", "ALP"}

InitUserStakingRequests ==
    { [fn |-> "initUserStaking", connected |-> connected, hasUSDC |-> hasUSDC,
       owner |-> Owner, stakedTokenMint |-> mint, accountInfo |-> accountInfo] :
        connected \in BOOLEAN, hasUSDC \in BOOLEAN,
        mint \in StakedTokenMints,
        accountInfo \in [StakingMints -> AccountInfoResults] }

Requests ==
    LiquidationRequests \cup CappedFeeRequests \cup RoundTripRequests
        \cup LoadUserVestRequests \cup PrepareWSOLRequests
        \cup InitUserStakingRequests

CalcInit ==
    /\ ready = TRUE
    /\ SubmissionIdle
    /\ TranslateIdle
    /\ AtaIdle
    /\ PnlIdle
    /\ PriceIdle
    /\ SimulateIdle
    /\ mainPool = [custodies |-> <<"custodyUSDC", PublicKeyDefault, "custodySOL">>]
    /\ custodies = loadCustodies(mainPool)
    /\ opPc = "idle"
    /\ opArgs = NoArgs
    /\ preInstructions = <<>>
    /\ opError = NoError
    /\ request \in Requests
    /\ reply = NotComputed

CalculateLiquidationPrice ==
    /\ request.fn = "calculateLiquidationPrice"
    /\ reply = NotComputed
    /\ reply' = calculateLiquidationPrice(request.position)
    /\ UNCHANGED <<request, submissionVars, besidesCalc>>

CalculateCappedFeeForExitEarly ==
    /\ request.fn = "calculateCappedFeeForExitEarly"
    /\ reply = NotComputed
    /\ reply' = calculateCappedFeeForExitEarly(request.lockedStake, request.dateNow)
    /\ UNCHANGED <<request, submissionVars, besidesCalc>>

\* uiToNative(nb, decimals), and nativeToUi of what it gave
RoundTrip ==
    /\ request.fn = "uiToNative"
    /\ reply = NotComputed
    /\ LET native == uiToNative(request.nb, request.decimals) IN
       reply' = [computed |-> TRUE, native |-> native,
                 ui |-> nativeToUi(native, request.decimals)]
    /\ UNCHANGED <<request, submissionVars, besidesCalc>>

LoadUserVest ==
    /\ request.fn = "loadUserVest"
    /\ reply = NotComputed
    /\ reply' = loadUserVest(request.readonlyAdrenaProgram, request.walletAddress,
                             request.vest)
    /\ UNCHANGED <<request, submissionVars, besidesCalc>>

CreatePrepareWSOLAccountInstructions ==
    /\ request.fn = "createPrepareWSOLAccountInstructions"
    /\ reply = NotComputed
    /\ reply' = [computed |-> TRUE,
                 instructions |->
                    createPrepareWSOLAccountInstructions(
                        request.amount, request.balance, request.owner, request.wsolATA)]
    /\ UNCHANGED <<request, submissionVars, besidesCalc>>

InitUserStaking ==
    /\ request.fn = "initUserStaking"
    /\ reply = NotComputed
    /\ reply' = [computed |-> TRUE,
                 built |-> initUserStaking(request.connected, request.hasUSDC,
                                           request.owner, request.stakedTokenMint,
                                           request.accountInfo)]
    /\ UNCHANGED <<request, submissionVars, besidesCalc>>

CalcNext ==
    \/ CalculateLiquidationPrice
    \/ InitUserStaking
    \/ CreatePrepareWSOLAccountInstructions
    \/ LoadUserVest
    \/ RoundTrip
    \/ CalculateCappedFeeForExitEarly

CalcSpec == CalcInit /\ [][CalcNext]_vars

\* two numbers of the model are the same double
SameNumber(a, b) == AsDouble(a) = AsDouble(b)

\* the quantities of the liquidation price
LiqNative == request.position.nativeObject
LiqMaxLoss ==
    (LiqNative.sizeUsd * 10000) \div MaxLeverage
        + LiqNative.liquidationFeeUsd
        + uiToNative(request.position.borrowFeeUsd.value, USD_DECIMALS)
LiqDiff ==
    ((IF LiqMaxLoss >= LiqNative.collateralUsd
      THEN LiqMaxLoss - LiqNative.collateralUsd
      ELSE LiqNative.collateralUsd - LiqMaxLoss) * LiqNative.price)
        \div LiqNative.sizeUsd
\* the price moves up from the entry price
LiqAdds ==
    (request.position.side = "long") <=> (LiqMaxLoss >= LiqNative.collateralUsd)
LiquidationAnswered ==
    /\ request.fn = "calculateLiquidationPrice"
    /\ reply # NotComputed
    /\ ~reply.null

\* C21: the liquidation price is entryPrice + diff on the adding branch (long
\* with maxLoss >= collateral, short with maxLoss < collateral) and
\* entryPrice - diff floored at 0 on the other, with maxLoss = sizeUsd x 10000
\* / maxLeverage + liquidationFeeUsd + borrowFeeUsd and diff = |maxLoss -
\* collateralUsd| x entryPrice / sizeUsd, prices having 10 decimals.
C21_LiquidationPrice ==
    LiquidationAnswered =>
        SameNumber(reply.value,
                   Ui(IF LiqAdds THEN LiqNative.price + LiqDiff
                      ELSE IF LiqDiff >= LiqNative.price THEN 0
                      ELSE LiqNative.price - LiqDiff,
                      -PRICE_DECIMALS))

\* a short whose liquidation price was floored at 0
C21_Witness ==
    /\ LiquidationAnswered
    /\ request.position.side = "short"
    /\ ~LiqAdds
    /\ LiqDiff >= LiqNative.price
    /\ SameNumber(reply.value, Ui(0, 0))

\* C22: calculateCappedFeeForExitEarly returns a value in [0.15, 0.40] for
\* every locked stake and every current time, a lock duration of 0 and an
\* elapsed time that is negative or beyond the lock duration included.
C22_FeeRateInBand ==
    (request.fn = "calculateCappedFeeForExitEarly" /\ reply # NotComputed) =>
        /\ reply.kind = "finite"
        /\ ~Less(reply, LowerCap)
        /\ ~Less(UpperCap, reply)

\* floor(v x 10^d) of the decimal value v, in exact arithmetic
TruncatedNative(nb, decimals) ==
    IF nb.e + decimals >= 0
    THEN nb.m * 10^(nb.e + decimals)
    ELSE nb.m \div 10^(-(nb.e + decimals))

\* C23: for a non-negative decimal value v and a decimal count d, uiToNative
\* yields exactly floor(v x 10^d), and nativeToUi of it is v truncated to d
\* fractional digits.
C23_RoundTripTruncates ==
    (request.fn = "uiToNative" /\ reply # NotComputed) =>
        /\ reply.native = TruncatedNative(request.nb, request.decimals)
        /\ SameNumber(reply.ui,
                      Ui(TruncatedNative(request.nb, request.decimals),
                         -request.decimals))

-----------------------------------------------------------------------------
(* AdrenaService.getTokenPrice: the price cache (src/demo-file.ts)          *)

CACHE_DURATION == 60000

\* the clock advances at most this many times
MaxTicks == 2

\* by one millisecond, or by one millisecond less than the cache duration
ClockSteps == {1, CACHE_DURATION - 1}

PriceCallers == {"first", "second"}
PriceMints == {"SOL", "BONK"}

\* the price upstream quotes for a mint
UpstreamPrice(tokenMint) == IF tokenMint = "SOL" THEN "150.25" ELSE "0.00002"

\* what axios.get gives: the price, a body without the price, or a failure
UpstreamResponses(tokenMint) ==
    { [kind |-> "price", price |-> UpstreamPrice(tokenMint)],
      [kind |-> "missing", price |-> ""],
      [kind |-> "failed", price |-> ""] }

\* a cache entry; storedAt (the moment of tokenPriceCache.set) and tokenMint
\* (its key) are kept for the properties only
NoEntry == [present |-> FALSE, price |-> "", timestamp |-> 0, storedAt |-> 0,
            tokenMint |-> "none"]
CacheEntry(tokenMint, price, timestamp, storedAt) ==
    [present |-> TRUE, price |-> price, timestamp |-> timestamp,
     storedAt |-> storedAt, tokenMint |-> tokenMint]

NullPriceResult == [null |-> TRUE, price |-> ""]
PriceResult(price) == [null |-> FALSE, price |-> price]

NoResponse == [kind |-> "none", price |-> ""]
NoPriceCall ==
    [pc |-> "idle", tokenMint |-> "none", now |-> 0, result |-> NullPriceResult,
     source |-> "none", entry |-> NoEntry, response |-> NoResponse]

\* (mutant) an entry whose age equals the cache duration is still served
IsFresh_Inclusive(cachedPrice, now) ==
    cachedPrice.present /\ now - cachedPrice.timestamp <= CACHE_DURATION

\* cachedPrice && now - cachedPrice.timestamp < this.CACHE_DURATION
IsFresh(cachedPrice, now) ==
    cachedPrice.present /\ now - cachedPrice.timestamp < CACHE_DURATION

PriceInit ==
    /\ ready = TRUE
    /\ SubmissionIdle
    /\ TranslateIdle
    /\ CustodyIdle
    /\ AtaIdle
    /\ PnlIdle
    /\ CalcIdle
    /\ SimulateIdle
    /\ clockMs = 0
    /\ clockTicks = 0
    /\ tokenPriceCache = [mint \in PriceMints |-> NoEntry]
    /\ priceCalls = [c \in PriceCallers |-> NoPriceCall]

\* getTokenPrice(tokenMint) up to its await: the cache and the clock are
\* read, a fresh entry is returned, otherwise the request is sent
GetTokenPrice(c) ==
    /\ priceCalls[c].pc \in {"idle", "returned"}
    /\ \E tokenMint \in PriceMints :
          LET cachedPrice == tokenPriceCache[tokenMint]
              now == clockMs
          IN priceCalls' = [priceCalls EXCEPT ![c] =
                IF IsFresh(cachedPrice, now)
                THEN [pc |-> "returned", tokenMint |-> tokenMint, now |-> now,
                      result |-> PriceResult(cachedPrice.price),
                      source |-> "cache", entry |-> cachedPrice,
                      response |-> NoResponse]
                ELSE [pc |-> "axios.get", tokenMint |-> tokenMint, now |-> now,
                      result |-> NullPriceResult,
                      source |-> "upstream", entry |-> NoEntry,
                      response |-> NoResponse]]
    /\ UNCHANGED <<clockMs, clockTicks, tokenPriceCache, ready, submissionVars,
                   besidesPrice>>

\* the request is answered: a price is stored with the time the call read at
\* its start and returned; without a price, or on a failure (the catch), null
\* is returned
PriceResponse(c) ==
    /\ priceCalls[c].pc = "axios.get"
    /\ \E response \in UpstreamResponses(priceCalls[c].tokenMint) :
          LET call == priceCalls[c] IN
          IF response.kind = "price"
          THEN /\ tokenPriceCache' = [tokenPriceCache EXCEPT ![call.tokenMint] =
                      CacheEntry(call.tokenMint, response.price, call.now, clockMs)]
               /\ priceCalls' = [priceCalls EXCEPT ![c] =
                      [call EXCEPT !.pc = "returned",
                                   !.result = PriceResult(response.price),
                                   !.response = response]]
          ELSE /\ tokenPriceCache' = tokenPriceCache
               /\ priceCalls' = [priceCalls EXCEPT ![c] =
                      [call EXCEPT !.pc = "returned",
                                   !.result = NullPriceResult,
                                   !.response = response]]
    /\ UNCHANGED <<clockMs, clockTicks, ready, submissionVars, besidesPrice>>

\* time passes
PriceTick ==
    /\ clockTicks < MaxTicks
    /\ \E step \in ClockSteps : clockMs' = clockMs + step
    /\ clockTicks' = clockTicks + 1
    /\ UNCHANGED <<tokenPriceCache, priceCalls, ready, submissionVars, besidesPrice>>

PriceNext ==
    \/ \E c \in PriceCallers : GetTokenPrice(c)
    \/ \E c \in PriceCallers : PriceResponse(c)
    \/ PriceTick

PriceSpec == PriceInit /\ [][PriceNext]_vars

\* C24: a non-null price returned by getTokenPrice was fetched from upstream
\* during that call, or was stored in the cache (under the mint asked for)
\* less than 60 000 ms before the call read the clock; an entry of age >= 60 s
\* is never served, and an upstream failure or missing price yields null.
C24_FreshOrFetched ==
    \A c \in PriceCallers :
        LET call == priceCalls[c] IN
        call.pc = "returned" =>
            /\ ~call.result.null =>
                  \/ /\ call.source = "upstream"
                     /\ call.response.kind = "price"
                     /\ call.result.price = call.response.price
                  \/ /\ call.source = "cache"
                     /\ call.entry.present
                     /\ call.entry.tokenMint = call.tokenMint
                     /\ call.result.price = call.entry.price
                     /\ call.now - call.entry.storedAt < CACHE_DURATION
                     /\ call.now - call.entry.timestamp < CACHE_DURATION
            /\ (call.source = "upstream" /\ call.response.kind # "price") =>
                  call.result.null

\* an entry one millisecond short of the cache duration was served, while the
\* other caller, past the duration, got null from a failing upstream although
\* the entry was still in the cache
C24_Witness ==
    \E c, d \in PriceCallers :
        /\ priceCalls[c].pc = "returned"
        /\ priceCalls[c].source = "cache"
        /\ priceCalls[c].now - priceCalls[c].entry.timestamp = CACHE_DURATION - 1
        /\ priceCalls[d].pc = "returned"
        /\ priceCalls[d].tokenMint = priceCalls[c].tokenMint
        /\ priceCalls[d].response.kind = "failed"
        /\ priceCalls[d].result.null
        /\ tokenPriceCache[priceCalls[d].tokenMint].present
        /\ priceCalls[d].now - tokenPriceCache[priceCalls[d].tokenMint].timestamp
              >= CACHE_DURATION

\* C25: loadUserVest returns null when the client is not ready (no readonly
\* program), false when the user has no vest account, and the vest record
\* extended with its address otherwise; "no vest" is never reported as null.
C25_VestTriState ==
    (request.fn = "loadUserVest" /\ reply # NotComputed) =>
        reply = IF ~request.readonlyAdrenaProgram THEN VestNull
                ELSE IF ~request.vest.present THEN VestFalse
                ELSE VestExtended(getUserVestPda(request.walletAddress), request.vest)

-----------------------------------------------------------------------------
(* simulateTransactionStrong on its own                                     *)

Resolved(value) == [kind |-> "resolve", value |-> value]
RejectedWith(err) == [kind |-> "reject", err |-> err]

SimulateInit ==
    /\ ready = TRUE
    /\ SubmissionIdle
    /\ TranslateIdle
    /\ CustodyIdle
    /\ AtaIdle
    /\ PnlIdle
    /\ CalcIdle
    /\ PriceIdle
    /\ simConnection \in BOOLEAN
    /\ simPc = "idle"
    /\ simRetry = 0
    /\ simCalls = 0
    /\ simFailures = <<>>
    /\ simSettlements = <<>>

\* simulateTransactionStrongPromise(resolve, reject, args, n) up to the call
\* of connection.simulateTransaction
simulateTransactionStrongPromise(n) ==
    IF ~simConnection
    THEN /\ simSettlements' =
                Append(simSettlements, RejectedWith(PlainError("Error: Connection missing")))
         /\ simPc' = "settled"
         /\ UNCHANGED <<simRetry, simCalls>>
    ELSE /\ simCalls' = simCalls + 1
         /\ simRetry' = n
         /\ simPc' = "calling"
         /\ UNCHANGED simSettlements

\* simulateTransactionStrong(args): the promise is made and the first
\* invocation runs
SimStart ==
    /\ simPc = "idle"
    /\ simulateTransactionStrongPromise(0)
    /\ UNCHANGED <<simConnection, simFailures, ready, submissionVars, besidesSimulate>>

\* the .then: the result carries no err
SimResolve ==
    /\ simPc = "calling"
    /\ \E units \in UnitsConsumedValues :
          simSettlements' = Append(simSettlements, Resolved(units))
    /\ simPc' = "settled"
    /\ UNCHANGED <<simConnection, simRetry, simCalls, simFailures, ready,
                   submissionVars, besidesSimulate>>

\* the .catch: the call threw, or the .then threw the parsed value.err
SimCatch ==
    /\ simPc = "calling"
    /\ \E err \in SimulationFailures :
          /\ simFailures' = Append(simFailures, err)
          /\ IF ShouldRetrySimulation(err, simRetry)
             THEN /\ simPc' = "setTimeout"
                  /\ UNCHANGED simSettlements
             ELSE /\ simSettlements' = Append(simSettlements, RejectedWith(err))
                  /\ simPc' = "settled"
    /\ UNCHANGED <<simConnection, simRetry, simCalls, ready, submissionVars,
                   besidesSimulate>>

\* the timer of 50 ms fires: the next invocation, with retry + 1
SimTimer ==
    /\ simPc = "setTimeout"
    /\ simulateTransactionStrongPromise(simRetry + 1)
    /\ UNCHANGED <<simConnection, simFailures, ready, submissionVars, besidesSimulate>>

SimulateNext ==
    \/ SimStart
    \/ SimResolve
    \/ SimCatch
    \/ SimTimer

SimulateSpec == SimulateInit /\ [][SimulateNext]_vars

\* every call of connection.simulateTransaction is answered and every timer
\* fires
SimulateFairSpec ==
    /\ SimulateSpec
    /\ WF_vars(SimStart)
    /\ WF_vars(SimResolve \/ SimCatch)
    /\ WF_vars(SimTimer)

\* the text the catch looks at
FailureText(err) == IF err.typed THEN err.errorString ELSE err.str

SimSettled == Len(simSettlements) = 1

SimulateOnce ==
    /\ Len(simSettlements) <= 1
    /\ simPc = "settled" <=> SimSettled
    /\ simCalls <= MAX_SIMULATE_RETRY + 1
    \* every failure but the last one was a BlockhashNotFound that was retried
    /\ \A i \in 1..(Len(simFailures) - 1) :
          IncludesBlockhashNotFound(FailureText(simFailures[i]))
    /\ simPc = "setTimeout" =>
          IncludesBlockhashNotFound(FailureText(simFailures[Len(simFailures)]))
    /\ SimSettled =>
          LET settlement == simSettlements[1] IN
          IF settlement.kind = "resolve"
          THEN simCalls = Len(simFailures) + 1
          ELSE IF ~simConnection
          THEN simCalls = 0 /\ simFailures = <<>>
          ELSE /\ simCalls = Len(simFailures)
               /\ settlement.err = simFailures[Len(simFailures)]
               /\ IncludesBlockhashNotFound(FailureText(settlement.err))
                     => simCalls = MAX_SIMULATE_RETRY + 1

\* C26: simulateTransactionStrong settles exactly once and calls
\* connection.simulateTransaction at most 11 times: it retries only a failure
\* whose text contains BlockhashNotFound, rejects at once with any other
\* failure, resolves with the first answer without error, and rejects with the
\* BlockhashNotFound error once the 10 retries are used up.
C26_SimulateSettlesOnce == []SimulateOnce /\ <>SimSettled

\* the 10 retries were used up and the call rejected with BlockhashNotFound
C26_Witness ==
    /\ SimSettled
    /\ simSettlements[1].kind = "reject"
    /\ simCalls = MAX_SIMULATE_RETRY + 1
    /\ IncludesBlockhashNotFound(FailureText(simSettlements[1].err))

\* C27: the result of createPrepareWSOLAccountInstructions starts with the
\* idempotent create-ATA instruction, followed by a transfer of exactly amount
\* - currentBalance lamports and a sync-native instruction if and only if
\* amount > 0 and the current balance (0 when it cannot be read) is
\* numerically less than amount; otherwise nothing else is added.
C27_WSOLToppedUp ==
    (request.fn = "createPrepareWSOLAccountInstructions" /\ reply # NotComputed) =>
        LET currentBalance == IF request.balance.null THEN 0 ELSE request.balance.amount
            create == createAssociatedTokenAccountIdempotentInstruction(
                          request.owner, request.wsolATA, request.owner, NATIVE_MINT)
        IN reply.instructions =
              IF request.amount > 0 /\ currentBalance < request.amount
              THEN <<create,
                     SystemProgramTransfer(request.owner, request.wsolATA,
                                           request.amount - currentBalance),
                     createSyncNativeInstruction(request.wsolATA)>>
              ELSE <<create>>

-----------------------------------------------------------------------------
(* The end of a submission *)

\* C28: signAndExecuteTxAlternative returns a signature only if the last
\* getSignatureStatus poll reported more than 10 confirmations and no
\* execution error for it; a status with err, a null status, or confirmations
\* null or <= 10 never leads to a successful return.
C28_ReturnNeedsDeepStatus ==
    outcome.kind = "returned" =>
        /\ statusCalls >= 1
        /\ outcome.value = txSignatureBase58
        /\ confirmTxRet.present
        /\ confirmTxRet.value
        /\ confirmTxRet.confirmations # NullConfirmations
        /\ confirmTxRet.confirmations > MIN_CONFIRMATIONS
        /\ ~confirmTxRet.hasErr

\* the signature was returned after a poll that did not confirm and one that did
C28_Witness ==
    /\ outcome.kind = "returned"
    /\ statusCalls >= 2
    /\ confirmTxRet = StatusDeep

\* the step callbacks of the notification, in the order they were invoked
StepCallbacks ==
    SelectSeq(notifLog,
              LAMBDA call : call[1] \in {"currentStepSucceeded", "currentStepErrored"})

\* C29: notification.currentStepErrored is invoked at most once for a
\* submission, and once it has been invoked no further step callback
\* (currentStepSucceeded or currentStepErrored) is invoked - on every failure
\* path, the confirmation timeout and an on-chain execution error included.
C29_ErroredOnceAndLast ==
    \A i \in 1..Len(StepCallbacks) :
        StepCallbacks[i][1] = "currentStepErrored" => i = Len(StepCallbacks)

\* C30: the pre-instruction list an operation assembles holds at most one
\* account-creation instruction per associated token address, for every choice
\* of its mint arguments: initUserStaking with stakedTokenMint equal to the lm
\* (ADX) mint does not put two creation instructions for the same address into
\* one transaction.
C30_OneCreationPerAddress ==
    (request.fn = "initUserStaking" /\ reply # NotComputed /\ reply.built.ok) =>
        LET list == reply.built.value IN
        \A i, j \in 1..Len(list) :
            (/\ list[i].kind = "createAssociatedTokenAccount"
             /\ list[j].kind = "createAssociatedTokenAccount"
             /\ list[i].value.associatedToken = list[j].value.associatedToken)
                => i = j

====
